---- MODULE Spec2Model ----
(***************************************************************************)
(* Performance-differential and wager-sizing engine of the NFL playoff     *)
(* predictor: NFLPredictor.predict_game (core/predictor.py), the Kelly     *)
(* calculator (utils/kelly.py) and the betting signal generator            *)
(* (core/betting_signals.py).                                              *)
(*                                                                         *)
(* Number representation.  The program computes in floating point; the    *)
(* model computes exactly:                                                 *)
(*   - EPA values are integers in units of 10^-6 EPA (0.029 is 29000);     *)
(*   - spreads and edges are integers in units of 10^-6 points;            *)
(*   - probabilities, Kelly fractions, stakes and ratios are exact         *)
(*     rationals <<numerator, denominator>> in lowest terms.               *)
(* Every input set below is chosen so that each division the code makes    *)
(* is exact in these units.                                                *)
(* Lines 178-236 of predict_game are also computed in binary floating      *)
(* point at a reduced precision, where rounding is the point.              *)
(***************************************************************************)
EXTENDS Integers, Sequences, FiniteSets, TLC

----------------------------------------------------------------------------
(* Exact rational arithmetic                                               *)

Abs(x) == IF x < 0 THEN -x ELSE x

RECURSIVE GCD(_, _)
GCD(a, b) == IF b = 0 THEN a ELSE GCD(b, a % b)

\* the rational n/d (d # 0) in lowest terms with a positive denominator
Rat(n, d) ==
    LET g == GCD(Abs(n), Abs(d))
        s == IF d < 0 THEN -1 ELSE 1
    IN  << (s * n) \div g, (s * d) \div g >>

RInt(n)    == << n, 1 >>
RAdd(x, y) == Rat(x[1] * y[2] + y[1] * x[2], x[2] * y[2])
RSub(x, y) == Rat(x[1] * y[2] - y[1] * x[2], x[2] * y[2])
RMul(x, y) ==
    LET a == Rat(x[1], y[2])
        b == Rat(y[1], x[2])
    IN  Rat(a[1] * b[1], a[2] * b[2])
RDiv(x, y) == RMul(x, Rat(y[2], y[1]))
RLt(x, y)  == x[1] * y[2] < y[1] * x[2]
RLe(x, y)  == x[1] * y[2] <= y[1] * x[2]
RMin(x, y) == IF RLe(x, y) THEN x ELSE y
RMax(x, y) == IF RLe(y, x) THEN x ELSE y
RZero      == << 0, 1 >>

Min(x, y) == IF x <= y THEN x ELSE y
Max(x, y) == IF x >= y THEN x ELSE y

\* dict.get(k, default) on a function whose domain is the set of keys present
Get(f, k, default) == IF k \in DOMAIN f THEN f[k] ELSE default

\* a Python dict (or None) is truthy when it has at least one key
Truthy(f) == DOMAIN f # {}

----------------------------------------------------------------------------
(* config.py                                                               *)

\* in hours
CACHE_HOURS == 24

EPA_DOMINANT_MODE       == TRUE
GLOBAL_NON_EPA_CAP      == 60000
CAP_REST_EPA            == 35000
CAP_INJURY_PER_TEAM_EPA == 30000
CAP_FAN_NOISE_EPA       == 9000
CAP_WEATHER_EPA         == 30000
RECENT_GAMES            == 4
RECENT_FORM_WEIGHT      == Rat(7, 10)
FULL_SEASON_WEIGHT      == Rat(3, 10)

HOME_FIELD_EPA                   == 29000
ALTITUDE_ADVANTAGE_EPA           == 18000
FAN_NOISE_BASE_EPA               == 4000
FAN_NOISE_LOUD_STADIUM_BONUS_EPA == 3000
FAN_NOISE_DOME_BONUS_EPA         == 2000

\* in percent
DIVISION_RIVALRY_COMPRESSION == 18

KELLY_FRACTION   == Rat(25, 100)
MAX_BET_SIZE_PCT == Rat(5, 100)
DEFAULT_BANKROLL == 10000

\* in points
KEY_NUMBERS == << 3, 7, 10, 6, 4, 14 >>

TZ_DIFF_PENALTY == [d \in 0..3 |->
    CASE d = 0 -> 0 [] d = 1 -> -7000 [] d = 2 -> -12000 [] d = 3 -> -18000]

\* in tenths (1.5)
SHORT_WEEK_MULTIPLIER == 15
MAX_PENALTY_EPA       == -27000

AFC_EAST  == {"BUF", "MIA", "NE", "NYJ"}
AFC_NORTH == {"BAL", "CIN", "CLE", "PIT"}
AFC_SOUTH == {"HOU", "IND", "JAX", "TEN"}
AFC_WEST  == {"DEN", "KC", "LV", "LAC"}
NFC_EAST  == {"DAL", "NYG", "PHI", "WAS"}
NFC_NORTH == {"CHI", "DET", "GB", "MIN"}
NFC_SOUTH == {"ATL", "CAR", "NO", "TB"}
NFC_WEST  == {"ARI", "LA", "SF", "SEA"}

ALL_TEAMS == AFC_EAST \cup AFC_NORTH \cup AFC_SOUTH \cup AFC_WEST \cup
             NFC_EAST \cup NFC_NORTH \cup NFC_SOUTH \cup NFC_WEST

DIVISIONS == {AFC_EAST, AFC_NORTH, AFC_SOUTH, AFC_WEST,
              NFC_EAST, NFC_NORTH, NFC_SOUTH, NFC_WEST}

TEAM_TIMEZONES == [t \in ALL_TEAMS |->
    CASE t \in {"HOU", "TEN", "KC", "DAL", "CHI", "GB", "MIN", "NO"} -> "CT"
      [] t \in {"DEN", "ARI"}                                      -> "MT"
      [] t \in {"LV", "LAC", "LA", "SF", "SEA"}                    -> "PT"
      [] OTHER                                                     -> "ET"]

ALTITUDE_TEAMS == {"DEN"}
DOME_TEAMS     == {"ATL", "DET", "NO", "MIN", "LV", "LA", "ARI"}
LOUD_STADIUMS  == {"SEA", "KC", "NO", "BUF", "PHI", "GB", "DAL", "MIN"}

----------------------------------------------------------------------------
(* utils/validators.py, utils/travel.py                                    *)

validate_team(team) == team \in ALL_TEAMS

\* TRUE where the validator returns True, FALSE where it raises ValueError
validate_probability(prob) == RLe(RZero, prob) /\ RLe(prob, RInt(1))

validate_odds(odds) == ~(odds = 0 \/ (odds > -100 /\ odds < 100 /\ odds # 0))

are_division_rivals(team1, team2) ==
    \E division_teams \in DIVISIONS :
        team1 \in division_teams /\ team2 \in division_teams

TZ_ORDER == [z \in {"ET", "CT", "MT", "PT"} |->
    CASE z = "ET" -> 0 [] z = "CT" -> 1 [] z = "MT" -> 2 [] z = "PT" -> 3]

timezone_diff(home_team, away_team) ==
    Abs(TZ_ORDER[TEAM_TIMEZONES[home_team]] - TZ_ORDER[TEAM_TIMEZONES[away_team]])

\* the short-week multiplier taken at seven days of rest as well
compute_travel_penalty_within_week(home_team, away_team, away_rest_days) ==
    LET diff == timezone_diff(home_team, away_team)
        base == IF diff \in DOMAIN TZ_DIFF_PENALTY THEN TZ_DIFF_PENALTY[diff] ELSE 0
    IN  IF \E n \in away_rest_days : n <= 7
        THEN (base * SHORT_WEEK_MULTIPLIER) \div 10
        ELSE base

\* away_rest_days is a set: {} for None, {n} for n days
compute_travel_penalty(home_team, away_team, away_rest_days) ==
    LET diff == timezone_diff(home_team, away_team)
        base == IF diff \in DOMAIN TZ_DIFF_PENALTY THEN TZ_DIFF_PENALTY[diff] ELSE 0
    IN  IF \E n \in away_rest_days : n < 7
        THEN (base * SHORT_WEEK_MULTIPLIER) \div 10
        ELSE base

\* the dome bonus given only to a stadium that is not already loud
compute_fan_noise_boost_exclusive(home_team) ==
    FAN_NOISE_BASE_EPA
    + (IF home_team \in LOUD_STADIUMS THEN FAN_NOISE_LOUD_STADIUM_BONUS_EPA
       ELSE IF home_team \in DOME_TEAMS THEN FAN_NOISE_DOME_BONUS_EPA ELSE 0)

compute_fan_noise_boost(home_team) ==
    FAN_NOISE_BASE_EPA
    + (IF home_team \in LOUD_STADIUMS THEN FAN_NOISE_LOUD_STADIUM_BONUS_EPA ELSE 0)
    + (IF home_team \in DOME_TEAMS THEN FAN_NOISE_DOME_BONUS_EPA ELSE 0)

----------------------------------------------------------------------------
(* utils/kelly.py                                                          *)

\* the net odds b in place of the decimal odds b + 1
american_to_decimal_net(odds) ==
    IF odds > 0 THEN Rat(odds, 100) ELSE Rat(100, Abs(odds))

american_to_decimal(odds) ==
    IF odds > 0 THEN RAdd(Rat(odds, 100), RInt(1))
                ELSE RAdd(Rat(100, Abs(odds)), RInt(1))

calculate_implied_prob(odds) ==
    IF odds > 0 THEN Rat(100, odds + 100)
                ELSE Rat(Abs(odds), Abs(odds) + 100)

\* the expected net gain b p - q, not divided by the net odds b
full_kelly_undivided(win_prob, odds) ==
    LET decimal_odds == american_to_decimal(odds)
        b == RSub(decimal_odds, RInt(1))
        q == RSub(RInt(1), win_prob)
    IN  RMax(RZero, RSub(RMul(b, win_prob), q))

full_kelly(win_prob, odds) ==
    LET decimal_odds == american_to_decimal(odds)
        b     == RSub(decimal_odds, RInt(1))
        p     == win_prob
        q     == RSub(RInt(1), p)
        kelly == RDiv(RSub(RMul(b, p), q), b)
    IN  RMax(RZero, kelly)

calculate_bet_size(win_prob, odds, bankroll, fraction) ==
    LET full_kelly_pct          == full_kelly(win_prob, odds)
        implied_prob            == calculate_implied_prob(odds)
        edge                    == RSub(win_prob, implied_prob)
        fractional_kelly_pct    == RMul(full_kelly_pct, fraction)
        full_kelly_amount       == RMul(RInt(bankroll), full_kelly_pct)
        fractional_kelly_amount == RMul(RInt(bankroll), fractional_kelly_pct)
        decimal_odds            == american_to_decimal(odds)
        ev  == RSub(RMul(RMul(win_prob, decimal_odds), fractional_kelly_amount),
                    fractional_kelly_amount)
        roi == IF RLt(RZero, fractional_kelly_amount)
               THEN RMul(RDiv(ev, fractional_kelly_amount), RInt(100))
               ELSE RZero
    IN  [ full_kelly_pct          |-> full_kelly_pct,
          full_kelly_amount       |-> full_kelly_amount,
          fractional_kelly_pct    |-> fractional_kelly_pct,
          fractional_kelly_amount |-> fractional_kelly_amount,
          kelly_fraction_used     |-> fraction,
          edge                    |-> edge,
          implied_prob            |-> implied_prob,
          expected_value          |-> ev,
          expected_roi            |-> roi,
          bankroll                |-> bankroll,
          recommendation          |-> IF RLt(RZero, edge) THEN "BET" ELSE "PASS",
          confidence              |->
              IF RLt(RZero, edge)
              THEN (IF RLt(Rat(10, 100), edge) THEN "HIGH"
                    ELSE IF RLt(Rat(5, 100), edge) THEN "MEDIUM" ELSE "LOW")
              ELSE "NEGATIVE_EV" ]

----------------------------------------------------------------------------
(* core/betting_analyzer.py, core/epa_analyzer.py                          *)

\* the first element of KEY_NUMBERS at minimal distance from abs_spread
\* (Python's min(list, key=...) keeps the first minimum)
nearest_key_number(abs_spread) ==
    LET dist(i) == Abs(KEY_NUMBERS[i] * 1000000 - abs_spread)
        best == CHOOSE i \in DOMAIN KEY_NUMBERS :
                    /\ \A j \in DOMAIN KEY_NUMBERS : dist(i) <= dist(j)
                    /\ \A j \in 1..(i - 1) : dist(j) > dist(i)
    IN  KEY_NUMBERS[best]

analyze_key_numbers(spread) ==
    LET abs_spread  == Abs(spread)
        nearest_key == nearest_key_number(abs_spread)
        distance    == Abs(abs_spread - nearest_key * 1000000)
    IN  [ spread             |-> spread,
          abs_spread         |-> abs_spread,
          nearest_key_number |-> nearest_key,
          distance_from_key  |-> distance,
          is_key_number      |-> distance < 500000,
          at_risk_of_push    |-> 500000 <= distance /\ distance < 1000000 ]

calculate_betting_recommendation(win_prob, spread, odds, bankroll) ==
    LET kelly_result == calculate_bet_size(win_prob, odds, bankroll, KELLY_FRACTION)
    IN  kelly_result @@
        [ spread |-> spread, odds |-> odds,
          key_number_analysis |-> analyze_key_numbers(spread) ]

apply_division_rivalry(epa_diff, is_division_game) ==
    IF ~is_division_game THEN epa_diff
    ELSE (epa_diff * (100 - DIVISION_RIVALRY_COMPRESSION)) \div 100

----------------------------------------------------------------------------
(* core/predictor.py                                                       *)

\* 1000 / (1 + e^(-0.25 s)) rounded to an integer, for s = -20.00, -19.75,
\* ..., 20.00 points: the logistic curve of predict_game tabulated at
\* quarter points
LOGISTIC_TABLE == <<
    7, 7, 8, 8, 9, 9, 10, 10, 11, 12, 12, 13, 14, 15, 16, 17, 18, 19, 20, 22,
    23, 24, 26, 28, 29, 31, 33, 35, 37, 40, 42, 45, 47, 50, 53, 57, 60, 64, 68,
    72, 76, 80, 85, 90, 95, 101, 107, 113, 119, 126, 133, 140, 148, 156, 165,
    173, 182, 192, 202, 212, 223, 234, 245, 257, 269, 281, 294, 307, 321, 335,
    349, 363, 378, 392, 407, 423, 438, 453, 469, 484, 500, 516, 531, 547, 562,
    577, 593, 608, 622, 637, 651, 665, 679, 693, 706, 719, 731, 743, 755, 766,
    777, 788, 798, 808, 818, 827, 835, 844, 852, 860, 867, 874, 881, 887, 893,
    899, 905, 910, 915, 920, 924, 928, 932, 936, 940, 943, 947, 950, 953, 955,
    958, 960, 963, 965, 967, 969, 971, 972, 974, 976, 977, 978, 980, 981, 982,
    983, 984, 985, 986, 987, 988, 988, 989, 990, 990, 991, 991, 992, 992, 993,
    993 >>

\* win probability of the home team for a spread in 10^-6 points: the table
\* entry of the quarter point at or below the spread (spreads beyond +-20
\* points take the end entries)
logistic(predicted_spread) ==
    LET k == Max(-80, Min(80, predicted_spread \div 250000))
    IN  Rat(LOGISTIC_TABLE[k + 81], 1000)

\* the tiers with 7 points already HIGH and 3 points already MEDIUM
confidence_of_inclusive(predicted_spread) ==
    IF Abs(predicted_spread) >= 7000000 THEN "HIGH"
    ELSE IF Abs(predicted_spread) >= 3000000 THEN "MEDIUM" ELSE "LOW"

confidence_of(predicted_spread) ==
    IF Abs(predicted_spread) > 7000000 THEN "HIGH"
    ELSE IF Abs(predicted_spread) > 3000000 THEN "MEDIUM" ELSE "LOW"

\* The EPA-dominant global cap of predict_game: the final differential and
\* the entry it adds to the adjustments record.  A mode in which only
\* effects above the cap are clamped, kept beside it for comparison.
apply_global_cap_upper_only(raw_epa_differential, base_epa_diff) ==
    LET non_epa_effect == raw_epa_differential - base_epa_diff
        cap == GLOBAL_NON_EPA_CAP
    IN  IF non_epa_effect > cap
        THEN [ epa_differential |-> base_epa_diff + cap,
               recorded |-> ("global_non_epa_cap_applied" :> non_epa_effect - cap) ]
        ELSE [ epa_differential |-> raw_epa_differential,
               recorded |-> ("global_non_epa_cap_applied" :> 0) ]

\* the same with the clamp always taken upwards
apply_global_cap_unsigned(raw_epa_differential, base_epa_diff) ==
    LET non_epa_effect == raw_epa_differential - base_epa_diff
        cap == GLOBAL_NON_EPA_CAP
    IN  IF Abs(non_epa_effect) > cap
        THEN [ epa_differential |-> base_epa_diff + cap,
               recorded |-> ("global_non_epa_cap_applied" :> non_epa_effect - cap) ]
        ELSE [ epa_differential |-> raw_epa_differential,
               recorded |-> ("global_non_epa_cap_applied" :> 0) ]

apply_global_cap(raw_epa_differential, base_epa_diff) ==
    IF EPA_DOMINANT_MODE
    THEN LET non_epa_effect == raw_epa_differential - base_epa_diff
             cap == GLOBAL_NON_EPA_CAP
         IN  IF Abs(non_epa_effect) > cap
             THEN LET clamped_effect == IF non_epa_effect > 0 THEN cap ELSE -cap
                  IN  [ epa_differential |-> base_epa_diff + clamped_effect,
                        recorded |-> ("global_non_epa_cap_applied" :>
                                          non_epa_effect - clamped_effect) ]
             ELSE [ epa_differential |-> raw_epa_differential,
                    recorded |-> ("global_non_epa_cap_applied" :> 0) ]
    ELSE [ epa_differential |-> raw_epa_differential, recorded |-> << >> ]

\* predict_game after the play data has been reduced to the two blended
\* values a.home_combined and a.away_combined (combined_total_epa of each
\* team).  The running values of the function body are carried from one
\* section of it to the next in a record s with the fields home_total_epa,
\* away_total_epa, adjustments, injury_impact and weather_impact.

\* home field
start_with_home_field(a) ==
    [ home_total_epa |-> a.home_combined + HOME_FIELD_EPA,
      away_total_epa |-> a.away_combined,
      adjustments    |-> ("home_field" :> HOME_FIELD_EPA),
      injury_impact  |-> 0,
      weather_impact |-> 0 ]

\* altitude
add_altitude(a, s) ==
    IF a.home_team \in ALTITUDE_TEAMS
    THEN [ s EXCEPT !.home_total_epa = @ + ALTITUDE_ADVANTAGE_EPA,
                    !.adjustments = @ @@ ("altitude" :> ALTITUDE_ADVANTAGE_EPA) ]
    ELSE s

\* fan noise
add_fan_noise(a, s) ==
    LET raw_fan_noise == compute_fan_noise_boost(a.home_team)
        fan_noise == Min(raw_fan_noise, CAP_FAN_NOISE_EPA)
    IN  [ s EXCEPT !.home_total_epa = @ + fan_noise,
                   !.adjustments = @ @@ ("fan_noise" :> fan_noise) ]

\* travel penalty
add_travel_penalty(a, s) ==
    LET away_rest == IF Truthy(a.rest_days) /\ "away" \in DOMAIN a.rest_days
                     THEN {a.rest_days["away"]} ELSE {}
        travel_pen == compute_travel_penalty(a.home_team, a.away_team, away_rest)
        applied_travel == IF travel_pen >= 0 THEN travel_pen
                          ELSE Max(travel_pen, MAX_PENALTY_EPA)
    IN  IF travel_pen # 0
        THEN [ s EXCEPT !.away_total_epa = @ + applied_travel,
                        !.adjustments = @ @@ ("travel_penalty" :> applied_travel) ]
        ELSE s

\* division rivalry
add_division_rivalry(a, s) ==
    LET raw_diff == s.home_total_epa - s.away_total_epa
        adjusted_diff == apply_division_rivalry(raw_diff, TRUE)
        compression == raw_diff - adjusted_diff
    IN  IF are_division_rivals(a.home_team, a.away_team)
        THEN [ s EXCEPT !.home_total_epa = @ - compression \div 2,
                        !.away_total_epa = @ + compression \div 2,
                        !.adjustments = @ @@ ("division_rivalry" :> -compression) ]
        ELSE s

\* the rest adjustment left unclamped
add_rest_differential_unclamped(a, s) ==
    LET rest_diff == Get(a.rest_days, "home", 0) - Get(a.rest_days, "away", 0)
        rest_adjustment == rest_diff * 5000
    IN  IF Truthy(a.rest_days) /\ rest_diff # 0
        THEN [ s EXCEPT !.home_total_epa = @ + rest_adjustment,
                        !.adjustments = @ @@ ("rest_differential" :> rest_adjustment) ]
        ELSE s

\* rest differential
add_rest_differential(a, s) ==
    LET rest_diff == Get(a.rest_days, "home", 0) - Get(a.rest_days, "away", 0)
        rest_raw  == rest_diff * 5000
        rest_adjustment == IF rest_raw > 0 THEN Min(rest_raw, CAP_REST_EPA)
                           ELSE Max(rest_raw, -CAP_REST_EPA)
    IN  IF Truthy(a.rest_days) /\ rest_diff # 0
        THEN [ s EXCEPT !.home_total_epa = @ + rest_adjustment,
                        !.adjustments = @ @@ ("rest_differential" :> rest_adjustment) ]
        ELSE s

\* max(min(x, CAP_INJURY_PER_TEAM_EPA), -CAP_INJURY_PER_TEAM_EPA)
cap_injury(x) == Max(Min(x, CAP_INJURY_PER_TEAM_EPA), -CAP_INJURY_PER_TEAM_EPA)

\* injuries
add_injuries(a, s) ==
    LET home_injury_impact == IF a.home_team \in DOMAIN a.injuries
                              THEN cap_injury(a.injuries[a.home_team]) ELSE 0
        away_injury_impact == IF a.away_team \in DOMAIN a.injuries
                              THEN cap_injury(a.injuries[a.away_team]) ELSE 0
        injury_impact == home_injury_impact + away_injury_impact
    IN  [ s EXCEPT !.home_total_epa = @ + home_injury_impact,
                   !.away_total_epa = @ + away_injury_impact,
                   !.injury_impact = injury_impact,
                   !.adjustments = @ @@ ("injuries" :> injury_impact) ]

\* weather
add_weather(a, s) ==
    LET temp   == Get(a.weather, "temperature", 70)
        wind   == Get(a.weather, "wind_speed", 0)
        precip == Get(a.weather, "precipitation", 0)
        weather_sum == IF Truthy(a.weather)
                       THEN (IF temp < 32 THEN -10000 ELSE 0)
                            + (IF wind > 15 THEN -15000 ELSE 0)
                            + (IF precip > 0 THEN -10000 ELSE 0)
                       ELSE 0
        weather_impact == IF weather_sum > 0 THEN Min(weather_sum, CAP_WEATHER_EPA)
                          ELSE Max(weather_sum, -CAP_WEATHER_EPA)
    IN  IF weather_sum # 0
        THEN [ s EXCEPT !.home_total_epa = @ + weather_impact \div 2,
                        !.away_total_epa = @ + weather_impact \div 2,
                        !.weather_impact = weather_impact,
                        !.adjustments = @ @@ ("weather" :> weather_impact) ]
        ELSE s

\* the adjustments with the rivalry compression taken last
adjusted_epa_rivalry_last(a) ==
    add_division_rivalry(a,
      add_weather(a,
        add_injuries(a,
          add_rest_differential(a,
            add_travel_penalty(a,
              add_fan_noise(a,
                add_altitude(a,
                  start_with_home_field(a))))))))

\* the adjustments in the order the code applies them
adjusted_epa(a) ==
    add_weather(a,
      add_injuries(a,
        add_rest_differential(a,
          add_division_rivalry(a,
            add_travel_penalty(a,
              add_fan_noise(a,
                add_altitude(a,
                  start_with_home_field(a))))))))

\* spread, probability, winner, confidence and the result record
build_prediction(a, now, s, capped, predicted_spread) ==
    LET win_probability == logistic(predicted_spread) IN
    [ game_date              |-> now,
      home_team              |-> a.home_team,
      away_team              |-> a.away_team,
      predicted_winner       |-> IF predicted_spread > 0 THEN a.home_team
                                 ELSE a.away_team,
      win_probability        |-> win_probability,
      predicted_spread       |-> predicted_spread,
      confidence_level       |-> confidence_of(predicted_spread),
      epa_differential       |-> capped.epa_differential,
      home_epa               |-> s.home_total_epa,
      away_epa               |-> s.away_total_epa,
      home_base_epa          |-> a.home_combined,
      away_base_epa          |-> a.away_combined,
      adjustments            |-> s.adjustments @@ capped.recorded,
      injury_impact          |-> s.injury_impact,
      weather_impact         |-> s.weather_impact,
      betting_recommendation |-> calculate_betting_recommendation(
                                     win_probability, predicted_spread,
                                     a.odds, a.bankroll),
      sharp_money_indicator  |-> "NEUTRAL",
      is_division_game       |-> are_division_rivals(a.home_team, a.away_team),
      generated_at           |-> now ]

\* the final differential and the global cap
cap_and_build(a, now, s, capped) ==
    build_prediction(a, now, s, capped, (capped.epa_differential * 1000) \div 40)

\* now is the reading of the clock; saved_id is {} when the prediction is
\* not saved and {id} when the database row got that id
predict_game(a, now, saved_id) ==
    LET s == adjusted_epa(a)
        prediction == cap_and_build(a, now, s,
                          apply_global_cap(s.home_total_epa - s.away_total_epa,
                                           a.home_combined - a.away_combined))
    IN  IF saved_id = {} THEN prediction
        ELSE prediction @@ ("prediction_id" :> CHOOSE i \in saved_id : TRUE)

----------------------------------------------------------------------------
(* core/betting_signals.py                                                 *)

\* MarketConfig is imported by betting_signals.py but is not defined in
\* config.py; the specification gives "a dedicated reduction factor (< 1)"
REDUCE_KELLY_NEAR_KEY == Rat(3, 4)

\* a call either returns a value or raises
Return(v) == [ status |-> "return", value |-> v ]
Raise(e)  == [ status |-> "raise", error |-> e ]

\* x rounded to the nearest multiple of unit, in units (a tie goes to the
\* even multiple)
RoundTo(x, unit) ==
    LET q == x \div unit
        r == x % unit
    IN  IF 2 * r > unit \/ (2 * r = unit /\ q % 2 = 1) THEN q + 1 ELSE q

\* format(x, ".1f") of a value in 10^-6 points, in tenths of a point
Format1f(x) == RoundTo(x, 100000)

\* format(x, ".3f") of a value in 10^-6 EPA, in thousandths
Format3f(x) == RoundTo(x, 1000)

\* the test with its first comparison only (the key at or above the line)
crosses_key_number_above_only(market_spread, edge_points) ==
    LET key_numbers == SubSeq(KEY_NUMBERS, 1, 2)
    IN  \E i \in DOMAIN key_numbers :
            LET key == key_numbers[i] * 1000000
            IN  Abs(market_spread) <= key /\ key <= Abs(market_spread) + edge_points

crosses_key_number(market_spread, edge_points) ==
    LET key_numbers == SubSeq(KEY_NUMBERS, 1, 2)
    IN  \E i \in DOMAIN key_numbers :
            LET key == key_numbers[i] * 1000000
            IN  \/ (Abs(market_spread) <= key /\ key <= Abs(market_spread) + edge_points)
                \/ (Abs(market_spread) >= key /\ key >= Abs(market_spread) - edge_points)

\* the classification with the confidence test of its second branch left out
determine_signal_any_confidence(edge_points, model_confidence, market_spread, is_playoff) ==
    LET playoff_multiplier == IF is_playoff THEN 12 ELSE 10
        crosses == crosses_key_number(market_spread, edge_points)
        AtLeast(tenths) == edge_points >= tenths * playoff_multiplier * 10000
    IN  IF AtLeast(40) /\ model_confidence = "HIGH" THEN "STRONG_BET"
        ELSE IF AtLeast(30) THEN "STRONG_BET"
        ELSE IF AtLeast(25) THEN "MEDIUM_BET"
        ELSE IF AtLeast(15) /\ ~crosses THEN "LEAN"
        ELSE IF edge_points >= 1000000 THEN "LEAN"
        ELSE "NO_PLAY"

\* the classification with the MEDIUM_BET threshold not scaled in the playoffs
determine_signal_fixed_medium(edge_points, model_confidence, market_spread, is_playoff) ==
    LET playoff_multiplier == IF is_playoff THEN 12 ELSE 10
        crosses == crosses_key_number(market_spread, edge_points)
        AtLeast(tenths) == edge_points >= tenths * playoff_multiplier * 10000
    IN  IF AtLeast(40) /\ model_confidence = "HIGH" THEN "STRONG_BET"
        ELSE IF AtLeast(30) /\ model_confidence \in {"HIGH", "MEDIUM"} THEN "STRONG_BET"
        ELSE IF edge_points >= 2500000 THEN "MEDIUM_BET"
        ELSE IF AtLeast(15) /\ ~crosses THEN "LEAN"
        ELSE IF edge_points >= 1000000 THEN "LEAN"
        ELSE "NO_PLAY"

\* the 1.5 tier refused, not lowered, when the line crosses a key number
determine_signal_key_gated(edge_points, model_confidence, market_spread, is_playoff) ==
    LET playoff_multiplier == IF is_playoff THEN 12 ELSE 10
        crosses == crosses_key_number(market_spread, edge_points)
        AtLeast(tenths) == edge_points >= tenths * playoff_multiplier * 10000
    IN  IF AtLeast(40) /\ model_confidence = "HIGH" THEN "STRONG_BET"
        ELSE IF AtLeast(30) /\ model_confidence \in {"HIGH", "MEDIUM"} THEN "STRONG_BET"
        ELSE IF AtLeast(25) THEN "MEDIUM_BET"
        ELSE IF AtLeast(15) THEN (IF crosses THEN "NO_PLAY" ELSE "LEAN")
        ELSE IF edge_points >= 1000000 THEN "LEAN"
        ELSE "NO_PLAY"

\* thresholds are in tenths of a point times playoff_multiplier in tenths,
\* so that 4.0 * 1.2 is 40 * 12 hundredths of a point
determine_signal(edge_points, model_confidence, market_spread, is_playoff) ==
    LET playoff_multiplier == IF is_playoff THEN 12 ELSE 10
        crosses == crosses_key_number(market_spread, edge_points)
        AtLeast(tenths) == edge_points >= tenths * playoff_multiplier * 10000
    IN  IF AtLeast(40) /\ model_confidence = "HIGH" THEN "STRONG_BET"
        ELSE IF AtLeast(30) /\ model_confidence \in {"HIGH", "MEDIUM"} THEN "STRONG_BET"
        ELSE IF AtLeast(25) THEN "MEDIUM_BET"
        ELSE IF AtLeast(15) /\ ~crosses THEN "LEAN"
        ELSE IF edge_points >= 1000000 THEN "LEAN"
        ELSE "NO_PLAY"

\* the sizing without the cap at MAX_BET_SIZE_PCT
calculate_kelly_uncapped(model_prob, market_odds, edge_points, market_spread) ==
    LET decimal_odds == IF market_odds < 0
                        THEN RAdd(RInt(1), Rat(100, Abs(market_odds)))
                        ELSE RAdd(RInt(1), Rat(market_odds, 100))
        b == RSub(decimal_odds, RInt(1))
        p == model_prob
        q == RSub(RInt(1), p)
        kelly == RDiv(RSub(RMul(b, p), q), b)
        fractional_kelly == RMul(kelly, KELLY_FRACTION)
        reduced == IF crosses_key_number(market_spread, edge_points)
                   THEN RMul(fractional_kelly, REDUCE_KELLY_NEAR_KEY)
                   ELSE fractional_kelly
    IN  RMax(RZero, reduced)

\* the sizing with the key-number reduction left out
calculate_kelly_unreduced(model_prob, market_odds, edge_points, market_spread) ==
    LET decimal_odds == IF market_odds < 0
                        THEN RAdd(RInt(1), Rat(100, Abs(market_odds)))
                        ELSE RAdd(RInt(1), Rat(market_odds, 100))
        b == RSub(decimal_odds, RInt(1))
        p == model_prob
        q == RSub(RInt(1), p)
        kelly == RDiv(RSub(RMul(b, p), q), b)
        fractional_kelly == RMul(kelly, KELLY_FRACTION)
    IN  RMax(RZero, RMin(fractional_kelly, MAX_BET_SIZE_PCT))

calculate_kelly(model_prob, market_odds, edge_points, market_spread) ==
    LET decimal_odds == IF market_odds < 0
                        THEN RAdd(RInt(1), Rat(100, Abs(market_odds)))
                        ELSE RAdd(RInt(1), Rat(market_odds, 100))
        b == RSub(decimal_odds, RInt(1))
        p == model_prob
        q == RSub(RInt(1), p)
        kelly == RDiv(RSub(RMul(b, p), q), b)
        fractional_kelly == RMul(kelly, KELLY_FRACTION)
        reduced == IF crosses_key_number(market_spread, edge_points)
                   THEN RMul(fractional_kelly, REDUCE_KELLY_NEAR_KEY)
                   ELSE fractional_kelly
        max_kelly == MAX_BET_SIZE_PCT
        capped == RMin(reduced, max_kelly)
    IN  RMax(RZero, capped)

build_reasoning(model_prediction, edge_points, is_playoff) ==
    LET epa_diff    == Get(model_prediction, "epa_differential", 0)
        adjustments == Get(model_prediction, "adjustments", << >>)
        adv         == Get(adjustments, "advanced_matchups", << >>)
    IN  << IF edge_points >= 4000000
           THEN << "Large model edge", Format1f(edge_points) >>
           ELSE IF edge_points >= 2500000
                THEN << "Solid model edge", Format1f(edge_points) >>
                ELSE << "Moderate edge", Format1f(edge_points) >> >>
        \o (IF Abs(epa_diff) > 100000
            THEN << << "Strong EPA advantage", Format3f(epa_diff) >> >> ELSE << >>)
        \o (IF Abs(Get(adjustments, "weather", 0)) > 15000
            THEN << << "Significant weather impact modeled" >> >> ELSE << >>)
        \o (IF Abs(Get(adjustments, "injuries", 0)) > 20000
            THEN << << "Material injury advantage" >> >> ELSE << >>)
        \o (IF Abs(Get(adjustments, "travel_penalty", 0)) > 10000
            THEN << << "Travel disadvantage for away team" >> >> ELSE << >>)
        \o (IF "advanced_matchups" \in DOMAIN adjustments
               /\ (Abs(Get(adv, "home", 0)) > 15000 \/ Abs(Get(adv, "away", 0)) > 15000)
            THEN << << "Favorable matchup dynamics" >> >> ELSE << >>)
        \o (IF is_playoff
            THEN << << "Playoff game - model calibrated for postseason" >> >> ELSE << >>)

KeyNumberWarning ==
    "Line crosses key number (3 or 7) - reduced Kelly sizing applied"

build_warnings(edge_points, market_spread, model_prediction) ==
       (IF crosses_key_number(market_spread, edge_points)
        THEN << KeyNumberWarning >> ELSE << >>)
    \o (IF Get(model_prediction, "confidence_level", "") = "LOW"
        THEN << "Low confidence prediction - consider smaller bet or pass" >> ELSE << >>)
    \o (IF edge_points < 2000000
        THEN << "Edge is marginal - only bet if you trust model calibration" >> ELSE << >>)
    \o (IF Abs(Get(model_prediction, "injury_impact", 0)) > 25000
        THEN << "Significant injury impact - monitor injury reports before kickoff" >>
        ELSE << >>)
    \o (IF Abs(Get(model_prediction, "weather_impact", 0)) > 20000
        THEN << "Weather-dependent - check forecast closer to game time" >> ELSE << >>)

\* model_prediction is a dict: a key that is absent, or present with the
\* value None, is absent from its domain
\* the test with truthiness in place of "is None": a value of 0 counts as
\* missing
missing_required_fields_falsy(model_prediction) ==
    \/ "predicted_spread" \notin DOMAIN model_prediction
    \/ "win_probability" \notin DOMAIN model_prediction
    \/ model_prediction["predicted_spread"] = 0
    \/ model_prediction["win_probability"] = RZero

\* model_spread is None or model_prob is None
missing_required_fields(model_prediction) ==
    \/ "predicted_spread" \notin DOMAIN model_prediction
    \/ "win_probability" \notin DOMAIN model_prediction

\* generate_recommendation sizing the away side on the away team's win
\* probability
generate_recommendation_side_probability(bankroll, game, home_team, away_team, model_prediction, market_spread, market_odds, is_playoff, game_date) ==
    IF missing_required_fields(model_prediction)
    THEN Raise([ type |-> "ValueError", game |-> game ])
    ELSE
    LET model_spread == model_prediction["predicted_spread"]
        model_prob   == model_prediction["win_probability"]
        edge_points  == Abs(model_spread - market_spread)
        home_side    == model_spread > market_spread
        side_prob    == IF home_side THEN model_prob ELSE RSub(RInt(1), model_prob)
        kelly_fraction == calculate_kelly(side_prob, market_odds,
                                          edge_points, market_spread)
        model_confidence == Get(model_prediction, "confidence_level", "MEDIUM")
    IN  Return([ game             |-> game,
                 game_date        |-> game_date,
                 recommended_side |-> IF home_side
                                      THEN << home_team, Format1f(market_spread) >>
                                      ELSE << away_team, Format1f(-market_spread) >>,
                 signal           |-> determine_signal(edge_points, model_confidence,
                                                       market_spread, is_playoff),
                 model_spread     |-> model_spread,
                 market_spread    |-> market_spread,
                 edge_points      |-> edge_points,
                 edge_percent     |-> IF Abs(market_spread) > 10000
                                      THEN Rat(edge_points, Abs(market_spread))
                                      ELSE Rat(edge_points * 100, 1000000),
                 kelly_fraction   |-> kelly_fraction,
                 suggested_units  |-> RDiv(RMul(kelly_fraction, RInt(bankroll)), RInt(100)),
                 confidence       |-> model_confidence,
                 reasoning        |-> build_reasoning(model_prediction,
                                                      edge_points, is_playoff),
                 warnings         |-> build_warnings(edge_points, market_spread,
                                                     model_prediction) ])

generate_recommendation(bankroll, game, home_team, away_team, model_prediction, market_spread, market_odds, is_playoff, game_date) ==
    IF missing_required_fields(model_prediction)
    THEN Raise([ type   |-> "ValueError",
                 game   |-> game,
                 fields |-> << "predicted_spread", "win_probability" >>,
                 got    |-> [ k \in {"predicted_spread", "win_probability"}
                                    \cap DOMAIN model_prediction
                              |-> model_prediction[k] ] ])
    ELSE
    LET model_spread == model_prediction["predicted_spread"]
        model_prob   == model_prediction["win_probability"]
        edge_points  == Abs(model_spread - market_spread)
        edge_percent == IF Abs(market_spread) > 10000
                        THEN Rat(edge_points, Abs(market_spread))
                        ELSE Rat(edge_points * 100, 1000000)
        recommended_side ==
            IF model_spread > market_spread
            THEN << home_team, Format1f(market_spread) >>
            ELSE << away_team, Format1f(-market_spread) >>
        model_confidence == Get(model_prediction, "confidence_level", "MEDIUM")
        signal == determine_signal(edge_points, model_confidence,
                                   market_spread, is_playoff)
        kelly_fraction == calculate_kelly(model_prob, market_odds,
                                          edge_points, market_spread)
        suggested_units == RDiv(RMul(kelly_fraction, RInt(bankroll)), RInt(100))
    IN  Return([ game             |-> game,
                 game_date        |-> game_date,
                 recommended_side |-> recommended_side,
                 signal           |-> signal,
                 model_spread     |-> model_spread,
                 market_spread    |-> market_spread,
                 edge_points      |-> edge_points,
                 edge_percent     |-> edge_percent,
                 kelly_fraction   |-> kelly_fraction,
                 suggested_units  |-> suggested_units,
                 confidence       |-> model_confidence,
                 reasoning        |-> build_reasoning(model_prediction,
                                                      edge_points, is_playoff),
                 warnings         |-> build_warnings(edge_points, market_spread,
                                                     model_prediction) ])

signal_order == [ sig \in {"STRONG_BET", "MEDIUM_BET", "LEAN", "NO_PLAY", "AVOID"} |->
    CASE sig = "STRONG_BET" -> 0 [] sig = "MEDIUM_BET" -> 1 [] sig = "LEAN" -> 2
      [] sig = "NO_PLAY" -> 3 [] sig = "AVOID" -> 4 ]

\* the sort key with the edge not negated
SortKeyLessAscending(x, y) ==
    \/ signal_order[x.signal] < signal_order[y.signal]
    \/ /\ signal_order[x.signal] = signal_order[y.signal]
       /\ x.edge_points < y.edge_points

\* key=lambda x: (signal_order[x.signal], -x.edge_points), compared as tuples
SortKeyLess(x, y) ==
    \/ signal_order[x.signal] < signal_order[y.signal]
    \/ /\ signal_order[x.signal] = signal_order[y.signal]
       /\ -x.edge_points < -y.edge_points

\* list.sort is stable: x goes after every element that is not greater
InsertSorted(sorted, x) ==
    LET after == { i \in DOMAIN sorted : ~SortKeyLess(x, sorted[i]) }
        k     == IF after = {} THEN 0
                 ELSE CHOOSE i \in after : \A j \in after : j <= i
    IN  SubSeq(sorted, 1, k) \o << x >> \o SubSeq(sorted, k + 1, Len(sorted))

RECURSIVE SortRecommendations(_)
SortRecommendations(recs) ==
    IF recs = << >> THEN << >>
    ELSE InsertSorted(SortRecommendations(SubSeq(recs, 1, Len(recs) - 1)),
                      recs[Len(recs)])

game_key_of(pred) == pred.away_team \o " @ " \o pred.home_team

\* the loop of generate_weekly_card from prediction i on, recommendations
\* being the list built so far: the list after the loop, or the error the
\* first failing generate_recommendation raised
RECURSIVE CardLoop(_, _, _, _, _, _)
CardLoop(bankroll, predictions, market_lines, is_playoff, i, recommendations) ==
    IF i > Len(predictions) THEN Return(recommendations)
    ELSE LET pred     == predictions[i]
             game_key == game_key_of(pred)
         IN  IF game_key \notin DOMAIN market_lines
             THEN CardLoop(bankroll, predictions, market_lines, is_playoff,
                           i + 1, recommendations)
             ELSE LET rec == generate_recommendation(
                                 bankroll, game_key, pred.home_team, pred.away_team,
                                 pred, market_lines[game_key], -110,
                                 is_playoff, Get(pred, "game_date", "TBD"))
                  IN  IF rec.status = "raise" THEN rec
                      ELSE CardLoop(bankroll, predictions, market_lines, is_playoff,
                                    i + 1, Append(recommendations, rec.value))

generate_weekly_card(bankroll, predictions, market_lines, is_playoff) ==
    LET built == CardLoop(bankroll, predictions, market_lines, is_playoff, 1, << >>)
    IN  IF built.status = "raise" THEN built
        ELSE Return(SortRecommendations(built.value))

----------------------------------------------------------------------------
(* core/data_loader.py, core/epa_analyzer.py: play-by-play tables          *)

\* A table is the sequence of its rows, a row a record of the columns read.
\* The column epa is in 10^-6 EPA; means and rates are exact rationals.

\* frame[mask]: the rows satisfying Keep, in the order of the frame
Rows(frame, Keep(_)) == SelectSeq(frame, Keep)

\* Series.unique(): the values of game_id in order of first appearance
RECURSIVE UniqueGames(_)
UniqueGames(frame) ==
    IF frame = << >> THEN << >>
    ELSE LET before == UniqueGames(SubSeq(frame, 1, Len(frame) - 1))
             g == frame[Len(frame)].game_id
         IN  IF \E i \in DOMAIN before : before[i] = g THEN before
             ELSE Append(before, g)

RECURSIVE SumEpa(_)
SumEpa(frame) ==
    IF frame = << >> THEN 0 ELSE frame[1].epa + SumEpa(Tail(frame))

\* frame['epa'].mean() of a frame with rows
MeanEpa(frame) == Rat(SumEpa(frame), Len(frame))

\* (condition).mean() of a frame with rows: the share of rows satisfying Hit
Rate(frame, Hit(_)) == Rat(Len(SelectSeq(frame, Hit)), Len(frame))

\* frame['epa'].mean() if len(frame) > 0 else 0.0
MeanEpaOrZero(frame) == IF Len(frame) > 0 THEN MeanEpa(frame) ELSE RZero

\* (condition).mean() if len(frame) > 0 else 0.0
RateOrZero(frame, Hit(_)) == IF Len(frame) > 0 THEN Rate(frame, Hit) ELSE RZero

get_team_plays(team, pbp) ==
    [ offense |-> Rows(pbp, LAMBDA p : p.posteam = team),
      defense |-> Rows(pbp, LAMBDA p : p.defteam = team) ]

\* team_plays filtered to the games games[-num_games:] of the team
recent_of(team_plays, games, num_games) ==
    LET recent_games ==
            IF Len(games) >= num_games /\ num_games > 0
            THEN SubSeq(games, Len(games) - num_games + 1, Len(games))
            ELSE games
    IN  Rows(team_plays,
             LAMBDA p : \E i \in DOMAIN recent_games : recent_games[i] = p.game_id)

\* the first num_games games of the team instead of the last
get_recent_games_first(team, num_games, pbp) ==
    LET team_plays == Rows(pbp, LAMBDA p : p.posteam = team \/ p.defteam = team)
        games == UniqueGames(team_plays)
        first_games == SubSeq(games, 1, Min(num_games, Len(games)))
    IN  Rows(team_plays,
             LAMBDA p : \E i \in DOMAIN first_games : first_games[i] = p.game_id)

get_recent_games(team, num_games, pbp) ==
    LET team_plays == Rows(pbp, LAMBDA p : p.posteam = team \/ p.defteam = team)
    IN  recent_of(team_plays, UniqueGames(team_plays), num_games)

\* the standard deviations of the result, which nothing reads, are left out
\* the same, all zero only when both sides are empty
calculate_team_epa_both_empty(offense, defense) ==
    IF Len(offense) = 0 /\ Len(defense) = 0
    THEN [ off_epa |-> RZero, def_epa |-> RZero, total_epa |-> RZero,
           off_plays |-> 0, def_plays |-> 0 ]
    ELSE [ off_epa   |-> MeanEpaOrZero(offense),
           def_epa   |-> MeanEpaOrZero(defense),
           total_epa |-> RSub(MeanEpaOrZero(offense), MeanEpaOrZero(defense)),
           off_plays |-> Len(offense),
           def_plays |-> Len(defense),
           off_success_rate |-> RateOrZero(offense, LAMBDA p : p.epa > 0),
           def_success_rate |-> RateOrZero(defense, LAMBDA p : p.epa < 0) ]

calculate_team_epa(offense, defense) ==
    IF Len(offense) = 0 \/ Len(defense) = 0
    THEN [ off_epa |-> RZero, def_epa |-> RZero, total_epa |-> RZero,
           off_plays |-> 0, def_plays |-> 0 ]
    ELSE [ off_epa   |-> MeanEpa(offense),
           def_epa   |-> MeanEpa(defense),
           total_epa |-> RSub(MeanEpa(offense), MeanEpa(defense)),
           off_plays |-> Len(offense),
           def_plays |-> Len(defense),
           off_success_rate |-> Rate(offense, LAMBDA p : p.epa > 0),
           def_success_rate |-> Rate(defense, LAMBDA p : p.epa < 0) ]

calculate_recent_form(team, recent) ==
    IF Len(recent) = 0
    THEN [ recent_off_epa |-> RZero, recent_def_epa |-> RZero, recent_games |-> 0 ]
    ELSE LET offense == Rows(recent, LAMBDA p : p.posteam = team)
             defense == Rows(recent, LAMBDA p : p.defteam = team)
         IN  [ recent_off_epa   |-> MeanEpaOrZero(offense),
               recent_def_epa   |-> MeanEpaOrZero(defense),
               recent_total_epa |-> RSub(MeanEpaOrZero(offense), MeanEpaOrZero(defense)),
               recent_games     |-> Len(UniqueGames(recent)) ]

weighted(full, recent) ==
    RAdd(RMul(full, FULL_SEASON_WEIGHT), RMul(recent, RECENT_FORM_WEIGHT))

combine_full_and_recent(full_epa, recent_epa) ==
    [ combined_off_epa   |-> weighted(full_epa.off_epa, recent_epa.recent_off_epa),
      combined_def_epa   |-> weighted(full_epa.def_epa, recent_epa.recent_def_epa),
      combined_total_epa |-> RSub(weighted(full_epa.off_epa, recent_epa.recent_off_epa),
                                  weighted(full_epa.def_epa, recent_epa.recent_def_epa)) ]

\* the four subsets of one side's plays
third_down(plays) == Rows(plays, LAMBDA p : p.down = 3)
red_zone(plays)   == Rows(plays, LAMBDA p : p.yardline_100 <= 20)
fourth_qtr(plays) == Rows(plays, LAMBDA p : p.qtr = 4)
two_minute(plays) ==
    Rows(plays, LAMBDA p : p.half_seconds_remaining <= 120
                           /\ p.half_seconds_remaining > 0)

calculate_situational_stats(offense, defense) ==
    [ off_3rd_epa         |-> MeanEpaOrZero(third_down(offense)),
      def_3rd_epa         |-> MeanEpaOrZero(third_down(defense)),
      off_3rd_conv_rate   |-> RateOrZero(third_down(offense), LAMBDA p : p.first_down = 1),
      def_3rd_stop_rate   |-> RateOrZero(third_down(defense), LAMBDA p : p.first_down = 0),
      off_redzone_epa     |-> MeanEpaOrZero(red_zone(offense)),
      def_redzone_epa     |-> MeanEpaOrZero(red_zone(defense)),
      off_redzone_td_rate |-> RateOrZero(red_zone(offense), LAMBDA p : p.touchdown = 1),
      def_redzone_td_rate |-> RateOrZero(red_zone(defense), LAMBDA p : p.touchdown = 1),
      off_q4_epa          |-> MeanEpaOrZero(fourth_qtr(offense)),
      def_q4_epa          |-> MeanEpaOrZero(fourth_qtr(defense)),
      off_2min_epa        |-> MeanEpaOrZero(two_minute(offense)),
      def_2min_epa        |-> MeanEpaOrZero(two_minute(defense)) ]

\* what predict_game computes for one team before the adjustments
profile_of(team, plays, full_epa, recent_epa) ==
    [ epa         |-> full_epa,
      recent_epa  |-> recent_epa,
      combined    |-> combine_full_and_recent(full_epa, recent_epa),
      situational |-> calculate_situational_stats(plays.offense, plays.defense) ]

team_profile(team, pbp) ==
    profile_of(team, get_team_plays(team, pbp),
               calculate_team_epa(get_team_plays(team, pbp).offense,
                                  get_team_plays(team, pbp).defense),
               calculate_recent_form(team, get_recent_games(team, RECENT_GAMES, pbp)))

----------------------------------------------------------------------------
(* core/data_loader.py: load_play_by_play and its caches                   *)

\* A table is identified by a version number v and held as {v}; {} is None.
\* The cache file is << >> when absent and otherwise [data, age]: data is
\* the pickled table, {} when the file cannot be unpickled; age is the
\* number of hours since it was written, counted up to CACHE_HOURS.
\* Each result is [outcome, pbp_data, cache_file, log]: what the call
\* returns or raises, the two caches after it, and the steps it logged.

\* the fetch failed: the stale cache or RuntimeError
stale_fallback(pbp_data, cache_file, log) ==
    IF cache_file # << >> /\ cache_file.data # {}
    THEN [ outcome    |-> Return(cache_file.data),
           pbp_data   |-> cache_file.data,
           cache_file |-> cache_file,
           log        |-> log \o << "fetch failed", "stale cache" >> ]
    ELSE [ outcome    |-> Raise("RuntimeError"),
           pbp_data   |-> pbp_data,
           cache_file |-> cache_file,
           log        |-> log \o << "fetch failed" >> ]

\* the file after pickle.dump: written, left alone when open() fails, or
\* left truncated when the dump fails
write_cache(cache_file, table, written) ==
    CASE written = "ok"        -> [ data |-> table, age |-> 0 ]
      [] written = "refused"   -> cache_file
      [] written = "truncated" -> [ data |-> {}, age |-> 0 ]

\* fetch from the API: fetched is {} when the fetch fails
fetch_and_cache(pbp_data, cache_file, fetched, written, log) ==
    IF fetched # {}
    THEN [ outcome    |-> Return(fetched),
           pbp_data   |-> fetched,
           cache_file |-> write_cache(cache_file, fetched, written),
           log        |-> log \o << "fetch" >> \o
                          (IF written = "ok" THEN << >> ELSE << "cache write failed" >>) ]
    ELSE stale_fallback(pbp_data, cache_file, log)

\* the disk cache served whatever its age
load_play_by_play_any_age(pbp_data, cache_file, force_refresh, fetched, written) ==
    IF ~force_refresh /\ pbp_data # {}
    THEN [ outcome |-> Return(pbp_data), pbp_data |-> pbp_data,
           cache_file |-> cache_file, log |-> << "memory" >> ]
    ELSE IF ~force_refresh /\ cache_file # << >>
    THEN IF cache_file.data # {}
         THEN [ outcome |-> Return(cache_file.data), pbp_data |-> cache_file.data,
                cache_file |-> cache_file, log |-> << "disk cache" >> ]
         ELSE fetch_and_cache(pbp_data, cache_file, fetched, written,
                              << "cache read failed" >>)
    ELSE fetch_and_cache(pbp_data, cache_file, fetched, written, << >>)

load_play_by_play(pbp_data, cache_file, force_refresh, fetched, written) ==
    IF ~force_refresh /\ pbp_data # {}
    THEN [ outcome |-> Return(pbp_data), pbp_data |-> pbp_data,
           cache_file |-> cache_file, log |-> << "memory" >> ]
    ELSE IF ~force_refresh /\ cache_file # << >> /\ cache_file.age < CACHE_HOURS
    THEN IF cache_file.data # {}
         THEN [ outcome |-> Return(cache_file.data), pbp_data |-> cache_file.data,
                cache_file |-> cache_file, log |-> << "disk cache" >> ]
         ELSE fetch_and_cache(pbp_data, cache_file, fetched, written,
                              << "cache read failed" >>)
    ELSE fetch_and_cache(pbp_data, cache_file, fetched, written, << >>)

\* removed is FALSE when os.remove raises, which leaves both caches as they
\* were
clear_cache(pbp_data, cache_file, removed) ==
    IF cache_file # << >> /\ ~removed
    THEN [ outcome |-> Raise("OSError"), pbp_data |-> pbp_data,
           cache_file |-> cache_file ]
    ELSE [ outcome |-> Return({}), pbp_data |-> {}, cache_file |-> << >> ]

----------------------------------------------------------------------------
(* Bounds and input sets                                                   *)

\* calls of predict_game in one run
MaxCalls == 2
\* readings of the clock: 0..MaxTime
MaxTime == 1
\* model spreads range over -MaxSpreadTenths..MaxSpreadTenths tenths of a point
MaxSpreadTenths == 70
\* predictions in one weekly card
MaxPreds == 4
\* win probabilities are k / ProbSteps, k in 0..ProbSteps
ProbSteps == 20
\* rows in a play-by-play table
MaxPlays == 3
\* game ids are 1..MaxGames, and get_recent_games is asked for 1..MaxGames
MaxGames == 3
\* rows in each table of the database
MaxRows == 2
\* calls of the loader in one run
MaxLoaderCalls == 3
\* tables the data source publishes: 1..MaxVersion
MaxVersion == 2
\* blended EPA values of the spread grid are k / 1000,
\* k in -MaxEpaThousandths..MaxEpaThousandths
MaxEpaThousandths == 320
\* significant bits of a floating-point number
MantissaBits == 7
\* one EPA is 2^FractionBits units of the floating-point model
FractionBits == 14
\* EPA totals of the floating-point grid are k / 100,
\* k in -MaxEpaHundredths..MaxEpaHundredths
MaxEpaHundredths == 30

\* all dicts with keys in K and values in V (the empty one stands for None
\* and for {}, which the code treats alike)
Dicts(K, V) == UNION { [D -> V] : D \in SUBSET K }

\* all lists over S of length at most n
Lists(S, n) == UNION { [1..k -> S] : k \in 0..n }

\* <<home, away>>: altitude venue, three time zones, division rivals with
\* and without travel, a loud dome, a quiet open-air stadium
GamePairs == { <<"DEN", "BUF">>, <<"BUF", "SEA">>, <<"KC", "DEN">>,
               <<"NO", "CAR">>, <<"CAR", "TB">>, <<"SEA", "NO">> }

\* blended combined_total_epa the play data give the home and the away team
HomeCombined == {0, 100000}
AwayCombined == {-50000, 50000}

RestValues   == {6, 13, 14}
InjuryValues == {-50000, 20000, 40000}

RestDicts == Dicts({"home", "away"}, RestValues)

InjuryDicts(home, away) == Dicts({home, away}, InjuryValues)

\* no report, fair, cold, windy, and cold wind with rain
WeatherDicts ==
    { << >>,
      [ temperature |-> 70, wind_speed |-> 5,  precipitation |-> 0 ],
      [ temperature |-> 20, wind_speed |-> 5,  precipitation |-> 0 ],
      [ temperature |-> 70, wind_speed |-> 20, precipitation |-> 0 ],
      [ temperature |-> 20, wind_speed |-> 20, precipitation |-> 1 ] }

PredictArgsOf(pairs, rests, weathers) ==
    UNION { [ home_team     : {g[1]},
              away_team     : {g[2]},
              home_combined : HomeCombined,
              away_combined : AwayCombined,
              injuries      : InjuryDicts(g[1], g[2]),
              weather       : weathers,
              rest_days     : rests,
              odds          : {-110},
              bankroll      : {10000},
              save_to_db    : {TRUE} ] : g \in pairs }

PredictArgs == PredictArgsOf(GamePairs, RestDicts, WeatherDicts)

\* the calls followed over several clock readings
RepeatedArgs ==
    PredictArgsOf({ <<"DEN", "BUF">>, <<"KC", "DEN">> },
                  { << >>, [home |-> 13, away |-> 6] },
                  { << >>, [temperature |-> 20, wind_speed |-> 20, precipitation |-> 1] })

\* calls without injuries, weather or rest days whose home EPA runs over a
\* grid of thousandths, so that the final differential takes every value
\* of the grid between the tiers: one pair in the same time zone, one three
\* zones apart
EpaGrid == { k * 1000 : k \in -MaxEpaThousandths..MaxEpaThousandths }

SpreadArgs ==
    [ home_team     : {"NYG", "SEA"},
      away_team     : {"BUF"},
      home_combined : EpaGrid,
      away_combined : {0},
      injuries      : {<< >>},
      weather       : {<< >>},
      rest_days     : {<< >>},
      odds          : {-110},
      bankroll      : {10000},
      save_to_db    : {TRUE} ]

\* every game between two different teams, the away team on no stated
\* rest, a short week or a full week
TravelPairs == { g \in ALL_TEAMS \X ALL_TEAMS : g[1] # g[2] }

TravelRests == Dicts({"home", "away"}, {6, 7})

TravelArgs ==
    UNION { [ home_team     : {g[1]},
              away_team     : {g[2]},
              home_combined : {0},
              away_combined : {0},
              injuries      : {<< >>},
              weather       : {<< >>},
              rest_days     : TravelRests,
              odds          : {-110},
              bankroll      : {10000},
              save_to_db    : {TRUE} ] : g \in TravelPairs }

\* a first-down play at midfield in the first quarter
Play(game_id, posteam, defteam, epa) ==
    [ game_id |-> game_id, posteam |-> posteam, defteam |-> defteam, epa |-> epa,
      down |-> 1, ydstogo |-> 10, first_down |-> 0, yardline_100 |-> 50,
      touchdown |-> 0, qtr |-> 1, half_seconds_remaining |-> 900 ]

\* <<posteam, defteam>>: the team on offense, on defense, and not playing
Matchups == { <<"DEN", "KC">>, <<"KC", "DEN">>, <<"KC", "BUF">> }

ProfilePlays ==
    { Play(g, m[1], m[2], e) : g \in {1, 2}, m \in Matchups, e \in {-200000, 100000} }

ProfileArgs ==
    [ team      : {"DEN"},
      num_games : {RECENT_GAMES},
      pbp       : Lists(ProfilePlays, MaxPlays) ]

\* tables whose games may be interleaved, asked for the last 1..MaxGames
RecentPlays ==
    { Play(g, m[1], m[2], 100000) : g \in 1..MaxGames, m \in Matchups }

RecentArgs ==
    [ team      : {"DEN"},
      num_games : 1..MaxGames,
      pbp       : Lists(RecentPlays, MaxPlays) ]

\* first and third downs, short and medium distance, gained or not, of the
\* team on offense and on defense
SituationalPlays ==
    { [ Play(1, m[1], m[2], o[2]) EXCEPT !.down = d, !.ydstogo = y, !.first_down = o[1] ] :
        m \in { <<"DEN", "KC">>, <<"KC", "DEN">> },
        d \in {1, 3},
        y \in {2, 5},
        o \in { <<1, 100000>>, <<0, -200000>> } }

SituationalArgs ==
    [ team      : {"DEN"},
      num_games : {RECENT_GAMES},
      pbp       : Lists(SituationalPlays, MaxPlays) ]

\* PredictionsDB: the prediction ids passed to save_result and save_bet (the
\* schema's foreign key is not enforced, so any integer is accepted), and
\* the columns that tell rows apart
PredictionIds == 1..MaxRows
ResultRows == [ prediction_id : PredictionIds, actual_winner : {"DEN", "BUF"} ]
BetRows    == [ prediction_id : PredictionIds, bet_type : {"SPREAD", "ML"} ]

\* NFLDataLoader: the cache files a new loader may find (none, a fresh or an
\* old pickle of table 0, a fresh or an old file that cannot be unpickled)
FoundCacheFiles ==
    { << >> } \cup [ data : { {}, {0} }, age : { 0, CACHE_HOURS } ]

\* outcomes of writing the cache file
WriteOutcomes == { "ok", "refused", "truncated" }

\* hours that pass between two calls
Waits == { 1, CACHE_HOURS - 1 }

\* KellyCalculator.calculate_bet_size
Probabilities == { Rat(k, ProbSteps) : k \in 0..ProbSteps }
\* values validate_probability rejects
InvalidProbabilities == { Rat(-1, 10), Rat(3, 2) }
\* -50 and 50 are values validate_odds rejects
KellyOdds     == {-1000, -500, -300, -250, -200, -150, -120, -110, -105, -100,
                  -50, 50,
                  100, 105, 110, 120, 150, 200, 250, 300, 500, 1000}
Bankrolls     == {1000, 10000}

KellyArgs ==
    [ win_prob : Probabilities \cup InvalidProbabilities,
      odds     : KellyOdds,
      bankroll : Bankrolls ]

\* BettingSignalGenerator.generate_recommendation
ModelSpreads  == { k * 100000 : k \in -MaxSpreadTenths..MaxSpreadTenths }
MarketSpreads == {-3000000, 0, 3000000, 3200000, 3500000, 7000000}
MarketOdds    == {-110, -50, 150}
ModelProbs    == { Rat(0, 1), Rat(11, 20), Rat(1, 1) }

\* the fields of a prediction the reasoning and the warnings read
PredictionContext ==
    { << >>,
      [ epa_differential |-> 150000,
        adjustments      |-> [ weather |-> -25000, injuries |-> -30000,
                               travel_penalty |-> -18000 ],
        injury_impact    |-> -30000,
        weather_impact   |-> -25000 ] }

\* prediction dicts with and without each required field
ModelPredictions ==
    { sp @@ pr @@ cf @@ cx :
        sp \in Dicts({"predicted_spread"}, ModelSpreads),
        pr \in Dicts({"win_probability"}, ModelProbs),
        cf \in Dicts({"confidence_level"}, {"HIGH", "MEDIUM", "LOW"}),
        cx \in PredictionContext }

RecArgs ==
    [ game             : {"BUF @ DEN"},
      home_team        : {"DEN"},
      away_team        : {"BUF"},
      model_prediction : ModelPredictions,
      market_spread    : MarketSpreads,
      market_odds      : MarketOdds,
      is_playoff       : BOOLEAN,
      game_date        : {"TBD"} ]

\* BettingSignalGenerator.generate_weekly_card
CardGames   == { <<"DEN", "BUF">>, <<"SEA", "SF">> }
CardSpreads == {4500000, 6000000, 8000000}

CardPredictions ==
    { [ home_team |-> g[1], away_team |-> g[2],
        win_probability |-> Rat(11, 20), confidence_level |-> "HIGH" ] @@ sp :
        g \in CardGames, sp \in Dicts({"predicted_spread"}, CardSpreads) }

CardLines == Dicts({ "BUF @ DEN", "SF @ SEA" }, {3000000})

CardArgs ==
    [ predictions  : Lists(CardPredictions, MaxPreds),
      market_lines : CardLines,
      is_playoff   : BOOLEAN ]

----------------------------------------------------------------------------
(* core/predictor.py in binary floating point                              *)

\* The program's numbers are binary floating-point values: every literal
\* and every result of +, - and / is rounded to the nearest value with the
\* format's number of significant bits, ties to the even significand.
\* This section computes lines 178-236 of predict_game that way, with
\* MantissaBits significant bits in place of the 53 of a Python float.
\* A value is an integer number of units of 2^-FractionBits; a result
\* smaller than 2^MantissaBits units is rounded to a whole unit.
RECURSIVE BitLength(_)
BitLength(n) == IF n = 0 THEN 0 ELSE 1 + BitLength(n \div 2)

\* a / d2 units rounded to a multiple of 2^s: nearest, ties to even
round_at(a, d2, s) ==
    LET q  == a \div d2
        r  == a % d2
        up == 2 * r > d2 \/ (2 * r = d2 /\ q % 2 = 1)
    IN  (IF up THEN q + 1 ELSE q) * 2^s

\* the bits a / d has beyond MantissaBits are rounded away
round_magnitude(a, d) == round_at(a, d * 2^Max(BitLength(a \div d) - MantissaBits, 0), Max(BitLength(a \div d) - MantissaBits, 0))

\* n / d units, rounded to nearest, ties to even (d > 0)
round_to_nearest_even(n, d) ==
    IF n < 0 THEN -round_magnitude(-n, d) ELSE round_magnitude(n, d)

\* the rounded value of num / den, the operands being evaluated once
round_ratio(num, den) ==
    CHOOSE m \in { round_to_nearest_even(n, d) : n \in {num}, d \in {den} } : TRUE

\* the literal num/den as the interpreter reads it
float_literal(num, den) == round_ratio(num * 2^FractionBits, den)

float_add(x, y) == round_ratio(x + y, 1)
float_sub(x, y) == round_ratio(x - y, 1)
float_div(x, y) == IF y < 0 THEN round_ratio(-x * 2^FractionBits, -y) ELSE round_ratio(x * 2^FractionBits, y)
\* halving only lowers the exponent
float_half(x) == x \div 2

\* predictor.py 179-203: the three decrements and the cap
weather_impact_float(weather) ==
    LET temp   == Get(weather, "temperature", 70)
        wind   == Get(weather, "wind_speed", 0)
        precip == Get(weather, "precipitation", 0)
        cold   == IF temp < 32 THEN float_sub(0, float_literal(1, 100)) ELSE 0
        windy  == IF wind > 15 THEN float_sub(cold, float_literal(15, 1000))
                  ELSE cold
        wet    == IF precip > 0 THEN float_sub(windy, float_literal(1, 100))
                  ELSE windy
        cap    == float_literal(CAP_WEATHER_EPA \div 1000, 1000)
    IN  IF ~Truthy(weather) THEN 0
        ELSE IF wet > 0 THEN Min(wet, cap) ELSE Max(wet, -cap)

\* predictor.py 231-236: winner and confidence, and the values returned
projection_of(home_team, away_team, home, away, weather_impact, epa_differential, predicted_spread) ==
    [ status           |-> "returned",
      home_epa         |-> home,
      away_epa         |-> away,
      weather_impact   |-> weather_impact,
      epa_differential |-> epa_differential,
      predicted_spread |-> predicted_spread,
      predicted_winner |-> IF predicted_spread > 0 THEN home_team ELSE away_team,
      confidence_level |-> IF Abs(predicted_spread) > 7 * 2^FractionBits THEN "HIGH"
                           ELSE IF Abs(predicted_spread) > 3 * 2^FractionBits THEN "MEDIUM"
                           ELSE "LOW" ]

\* predictor.py 225: the point spread of the differential
spread_float(home_team, away_team, home, away, weather_impact, epa_differential) ==
    projection_of(home_team, away_team, home, away, weather_impact, epa_differential,
                  float_div(epa_differential, float_literal(4, 100)))

\* predictor.py 213-223: the global cap on what the adjustments added
cap_float(raw_epa_differential, base_epa_diff, non_epa_effect, cap) ==
    IF EPA_DOMINANT_MODE /\ Abs(non_epa_effect) > cap
    THEN float_add(base_epa_diff, IF non_epa_effect > 0 THEN cap ELSE -cap)
    ELSE raw_epa_differential

\* predictor.py 211-223: the differential of the two totals, capped
differential_float(home_team, away_team, home, away, base_epa_diff, weather_impact, raw_epa_differential) ==
    spread_float(home_team, away_team, home, away, weather_impact,
                 cap_float(raw_epa_differential, base_epa_diff,
                           float_sub(raw_epa_differential, base_epa_diff),
                           float_literal(GLOBAL_NON_EPA_CAP \div 1000, 1000)))

\* predictor.py 205-211: half the impact added to each total
split_weather(home_team, away_team, base_epa_diff, weather_impact, home, away) ==
    differential_float(home_team, away_team, home, away, base_epa_diff,
                       weather_impact, float_sub(home, away))

\* predictor.py 204-206: the totals change only for a nonzero impact
weather_totals(home_team, away_team, home_total_epa, away_total_epa, base_epa_diff, weather_impact) ==
    split_weather(home_team, away_team, base_epa_diff, weather_impact,
                  IF weather_impact # 0
                  THEN float_add(home_total_epa, float_half(weather_impact))
                  ELSE home_total_epa,
                  IF weather_impact # 0
                  THEN float_add(away_total_epa, float_half(weather_impact))
                  ELSE away_total_epa)

\* predictor.py 178-236 from the totals the earlier adjustments left
project_float(home_team, away_team, home_total_epa, away_total_epa, base_epa_diff, weather) ==
    weather_totals(home_team, away_team, home_total_epa, away_total_epa,
                   base_epa_diff, weather_impact_float(weather))

\* EPA totals k/100 as floating-point values
FloatTotals ==
    { float_literal(k, 100) : k \in -MaxEpaHundredths..MaxEpaHundredths }

\* what the adjustments before the weather added to the home side
FloatAdjusted == { 0, float_literal(3, 100) }

\* the totals and the baseline at line 178, and the weather argument
FloatArgs ==
    { [ home_team |-> "SEA", away_team |-> "NO",
        home_total_epa |-> h, away_total_epa |-> a,
        base_epa_diff |-> float_sub(float_sub(h, a), adj), weather |-> w ] :
      h \in FloatTotals, a \in FloatTotals, adj \in FloatAdjusted,
      w \in WeatherDicts }

----------------------------------------------------------------------------
(* State                                                                   *)

VARIABLES
    pgArgs,          \* the arguments predict_game is called with
    use_database,    \* NFLPredictor.__init__: whether self.db exists
    now,             \* datetime.now()
    db_predictions,  \* rows in the predictions table (ids 1..db_predictions)
    returned,        \* the predictions predict_game has returned, in order
    kArgs,           \* the arguments calculate_bet_size is called with
    sizing,          \* what calculate_bet_size returned
    bankroll,        \* BettingSignalGenerator.bankroll
    recArgs,         \* the arguments generate_recommendation is called with
    recommendation,  \* the outcome of generate_recommendation
    cardArgs,        \* the arguments generate_weekly_card is called with
    card,            \* the outcome of generate_weekly_card
    plArgs,          \* a team, a number of games and the play-by-play table
    profile,         \* the team profile predict_game builds from the table
    recent_plays,    \* what get_recent_games returned
    situational,     \* what calculate_situational_stats returned
    db_results,      \* rows of the results table, row i having id i
    db_bets,         \* rows of the bets table, row i having id i
    pbp_data,        \* NFLDataLoader._pbp_data: {} for None, {v} for table v
    cache_file,      \* the pickle on disk: << >> when there is none
    upstream,        \* the table nfl.load_pbp would deliver now
    loader_calls,    \* calls of the loader made so far
    loaded,          \* the last call of the loader and its outcome
    fpArgs,          \* the totals, the baseline and the weather at line 178
    projection       \* what lines 178-236 make of them in floating point

vars == << pgArgs, use_database, now, db_predictions, returned,
           kArgs, sizing, bankroll, recArgs, recommendation, cardArgs, card,
           plArgs, profile, recent_plays, situational, db_results, db_bets,
           pbp_data, cache_file, upstream, loader_calls, loaded,
           fpArgs, projection >>

predictorVars == << pgArgs, use_database, now, db_predictions, returned >>
kellyVars     == << kArgs, sizing >>
signalVars    == << bankroll, recArgs, recommendation >>
cardVars      == << cardArgs, card >>
playVars      == << plArgs, profile, recent_plays, situational >>
dbVars        == << db_results, db_bets >>
loaderVars    == << pbp_data, cache_file, upstream, loader_calls, loaded >>
floatVars     == << fpArgs, projection >>

\* the outcome of a call that has not been made
NotCalled == [ status |-> "not called" ]

\* a component nothing calls
PredictorIdle ==
    /\ pgArgs = << >>
    /\ use_database = FALSE
    /\ now = 0
    /\ db_predictions = 0
    /\ returned = << >>

KellyIdle  == kArgs = << >> /\ sizing = NotCalled
SignalIdle == recArgs = << >> /\ recommendation = NotCalled
CardIdle   == cardArgs = << >> /\ card = NotCalled
DbIdle == db_results = << >> /\ db_bets = << >>
LoaderIdle ==
    /\ pbp_data = {}
    /\ cache_file = << >>
    /\ upstream = 0
    /\ loader_calls = 0
    /\ loaded = [ op |-> "none" ]
FloatIdle == fpArgs = << >> /\ projection = NotCalled
PlaysIdle ==
    /\ plArgs = << >>
    /\ profile = NotCalled
    /\ recent_plays = NotCalled
    /\ situational = NotCalled

PredictorInit(args) ==
    /\ pgArgs \in args
    /\ use_database \in BOOLEAN
    /\ now = 0
    /\ db_predictions = 0
    /\ returned = << >>

\* NFLPredictor.predict_game(**pgArgs)
PredictGame ==
    /\ pgArgs # << >>
    /\ Len(returned) < MaxCalls
    /\ validate_team(pgArgs.home_team)
    /\ validate_team(pgArgs.away_team)
    /\ LET saves == pgArgs.save_to_db /\ use_database
           id    == db_predictions + 1
       IN  /\ returned' = Append(returned,
                  predict_game(pgArgs, now, IF saves THEN {id} ELSE {}))
           /\ db_predictions' = IF saves THEN id ELSE db_predictions
    /\ UNCHANGED << pgArgs, use_database, now >>
    /\ UNCHANGED << kellyVars, signalVars, cardVars >>
    /\ UNCHANGED playVars
    /\ UNCHANGED dbVars
    /\ UNCHANGED loaderVars
    /\ UNCHANGED floatVars

\* time passes
Tick ==
    /\ now < MaxTime
    /\ now' = now + 1
    /\ UNCHANGED << pgArgs, use_database, db_predictions, returned >>
    /\ UNCHANGED << kellyVars, signalVars, cardVars >>
    /\ UNCHANGED playVars
    /\ UNCHANGED dbVars
    /\ UNCHANGED loaderVars
    /\ UNCHANGED floatVars

\* KellyCalculator.calculate_bet_size(win_prob, odds, bankroll)
CalculateBetSize ==
    /\ kArgs # << >>
    /\ sizing = NotCalled
    /\ sizing' = Return(calculate_bet_size(kArgs.win_prob, kArgs.odds,
                                           kArgs.bankroll, KELLY_FRACTION))
    /\ UNCHANGED << kArgs, predictorVars, signalVars, cardVars >>
    /\ UNCHANGED playVars
    /\ UNCHANGED dbVars
    /\ UNCHANGED loaderVars
    /\ UNCHANGED floatVars

\* BettingSignalGenerator.generate_recommendation(**recArgs)
GenerateRecommendation ==
    /\ recArgs # << >>
    /\ recommendation = NotCalled
    /\ recommendation' = generate_recommendation(
           bankroll, recArgs.game, recArgs.home_team, recArgs.away_team,
           recArgs.model_prediction, recArgs.market_spread, recArgs.market_odds,
           recArgs.is_playoff, recArgs.game_date)
    /\ UNCHANGED << bankroll, recArgs, predictorVars, kellyVars, cardVars >>
    /\ UNCHANGED playVars
    /\ UNCHANGED dbVars
    /\ UNCHANGED loaderVars
    /\ UNCHANGED floatVars

\* BettingSignalGenerator.generate_weekly_card(**cardArgs)
GenerateWeeklyCard ==
    /\ cardArgs # << >>
    /\ card = NotCalled
    /\ card' = generate_weekly_card(bankroll, cardArgs.predictions,
                                    cardArgs.market_lines, cardArgs.is_playoff)
    /\ UNCHANGED << bankroll, recArgs, recommendation, cardArgs,
                    predictorVars, kellyVars >>
    /\ UNCHANGED playVars
    /\ UNCHANGED dbVars
    /\ UNCHANGED loaderVars
    /\ UNCHANGED floatVars

\* predict_game's profile of one team: get_team_plays, calculate_team_epa,
\* get_recent_games, calculate_recent_form, combine_full_and_recent and
\* calculate_situational_stats
BuildProfile ==
    /\ plArgs # << >>
    /\ profile = NotCalled
    /\ profile' = Return(team_profile(plArgs.team, plArgs.pbp))
    /\ UNCHANGED << plArgs, recent_plays, situational >>
    /\ UNCHANGED << predictorVars, kellyVars, signalVars, cardVars >>
    /\ UNCHANGED dbVars
    /\ UNCHANGED loaderVars
    /\ UNCHANGED floatVars

\* NFLDataLoader.get_recent_games(team, num_games, pbp)
GetRecentGames ==
    /\ plArgs # << >>
    /\ recent_plays = NotCalled
    /\ recent_plays' = Return(get_recent_games(plArgs.team, plArgs.num_games,
                                               plArgs.pbp))
    /\ UNCHANGED << plArgs, profile, situational >>
    /\ UNCHANGED << predictorVars, kellyVars, signalVars, cardVars >>
    /\ UNCHANGED dbVars
    /\ UNCHANGED loaderVars
    /\ UNCHANGED floatVars

\* EPAAnalyzer.calculate_situational_stats on the team's plays
CalculateSituationalStats ==
    /\ plArgs # << >>
    /\ situational = NotCalled
    /\ situational' = Return(calculate_situational_stats(
                                 get_team_plays(plArgs.team, plArgs.pbp).offense,
                                 get_team_plays(plArgs.team, plArgs.pbp).defense))
    /\ UNCHANGED << plArgs, profile, recent_plays >>
    /\ UNCHANGED << predictorVars, kellyVars, signalVars, cardVars >>
    /\ UNCHANGED dbVars
    /\ UNCHANGED loaderVars
    /\ UNCHANGED floatVars

\* PredictionsDB.save_prediction(prediction): one more row, its id returned
SavePrediction ==
    /\ use_database
    /\ db_predictions < MaxRows
    /\ db_predictions' = db_predictions + 1
    /\ UNCHANGED << pgArgs, use_database, now, returned, dbVars >>
    /\ UNCHANGED << kellyVars, signalVars, cardVars, playVars >>
    /\ UNCHANGED loaderVars
    /\ UNCHANGED floatVars

\* PredictionsDB.save_result(prediction_id, result): an INSERT, whatever
\* rows the table already has
SaveResult ==
    /\ use_database
    /\ Len(db_results) < MaxRows
    /\ \E row \in ResultRows : db_results' = Append(db_results, row)
    /\ UNCHANGED << predictorVars, db_bets >>
    /\ UNCHANGED << kellyVars, signalVars, cardVars, playVars >>
    /\ UNCHANGED loaderVars
    /\ UNCHANGED floatVars

\* PredictionsDB.save_bet(prediction_id, bet_type, amount, odds)
SaveBet ==
    /\ use_database
    /\ Len(db_bets) < MaxRows
    /\ \E row \in BetRows : db_bets' = Append(db_bets, row)
    /\ UNCHANGED << predictorVars, db_results >>
    /\ UNCHANGED << kellyVars, signalVars, cardVars, playVars >>
    /\ UNCHANGED loaderVars
    /\ UNCHANGED floatVars

\* NFLDataLoader.load_play_by_play(force_refresh)
LoadPlayByPlay ==
    /\ loader_calls < MaxLoaderCalls
    /\ \E force_refresh \in BOOLEAN, fetched \in { {}, {upstream} },
          written \in WriteOutcomes :
          LET r == load_play_by_play(pbp_data, cache_file, force_refresh,
                                     fetched, written)
          IN  /\ pbp_data' = r.pbp_data
              /\ cache_file' = r.cache_file
              /\ loaded' = [ op |-> "load", force_refresh |-> force_refresh,
                             outcome |-> r.outcome, log |-> r.log ]
    /\ loader_calls' = loader_calls + 1
    /\ UNCHANGED upstream
    /\ UNCHANGED << predictorVars, kellyVars, signalVars, cardVars, playVars, dbVars >>
    /\ UNCHANGED floatVars

\* NFLDataLoader.clear_cache()
ClearCache ==
    /\ loader_calls < MaxLoaderCalls
    /\ \E removed \in BOOLEAN :
          LET r == clear_cache(pbp_data, cache_file, removed)
          IN  /\ pbp_data' = r.pbp_data
              /\ cache_file' = r.cache_file
              /\ loaded' = [ op |-> "clear", outcome |-> r.outcome ]
    /\ loader_calls' = loader_calls + 1
    /\ UNCHANGED upstream
    /\ UNCHANGED << predictorVars, kellyVars, signalVars, cardVars, playVars, dbVars >>
    /\ UNCHANGED floatVars

\* the data source publishes a new table
Publish ==
    /\ upstream < MaxVersion
    /\ upstream' = upstream + 1
    /\ UNCHANGED << pbp_data, cache_file, loader_calls, loaded >>
    /\ UNCHANGED << predictorVars, kellyVars, signalVars, cardVars, playVars, dbVars >>
    /\ UNCHANGED floatVars

\* time passes and the cache file gets older
Wait ==
    /\ cache_file # << >>
    /\ cache_file.age < CACHE_HOURS
    /\ \E hours \in Waits :
          cache_file' = [ cache_file EXCEPT !.age = Min(@ + hours, CACHE_HOURS) ]
    /\ UNCHANGED << pbp_data, upstream, loader_calls, loaded >>
    /\ UNCHANGED << predictorVars, kellyVars, signalVars, cardVars, playVars, dbVars >>
    /\ UNCHANGED floatVars

\* lines 178-236 of one predict_game call, in floating point
PredictGameFloat ==
    /\ projection = NotCalled
    /\ projection' = project_float(fpArgs.home_team, fpArgs.away_team,
                                   fpArgs.home_total_epa, fpArgs.away_total_epa,
                                   fpArgs.base_epa_diff, fpArgs.weather)
    /\ UNCHANGED fpArgs
    /\ UNCHANGED << predictorVars, kellyVars, signalVars, cardVars, playVars, dbVars, loaderVars >>

----------------------------------------------------------------------------
(* Specifications                                                          *)

\* one predictor, one argument list, called up to MaxCalls times
Init ==
    /\ PredictorInit(PredictArgs)
    /\ KellyIdle /\ SignalIdle /\ CardIdle
    /\ bankroll = DEFAULT_BANKROLL
    /\ PlaysIdle
    /\ DbIdle
    /\ LoaderIdle
    /\ FloatIdle

Next == PredictGame

Spec == Init /\ [][Next]_vars

\* the same, with the clock advancing between the calls
InitClock ==
    /\ PredictorInit(RepeatedArgs)
    /\ KellyIdle /\ SignalIdle /\ CardIdle
    /\ bankroll = DEFAULT_BANKROLL
    /\ PlaysIdle
    /\ DbIdle
    /\ LoaderIdle
    /\ FloatIdle

NextClock == PredictGame \/ Tick

SpecClock == InitClock /\ [][NextClock]_vars

\* predict_game over the grid of differentials
InitSpread ==
    /\ PredictorInit(SpreadArgs)
    /\ KellyIdle /\ SignalIdle /\ CardIdle
    /\ bankroll = DEFAULT_BANKROLL
    /\ PlaysIdle
    /\ DbIdle
    /\ LoaderIdle
    /\ FloatIdle

NextSpread == PredictGame

SpecSpread == InitSpread /\ [][NextSpread]_vars

\* predict_game over every pair of teams
InitTravel ==
    /\ PredictorInit(TravelArgs)
    /\ KellyIdle /\ SignalIdle /\ CardIdle
    /\ bankroll = DEFAULT_BANKROLL
    /\ PlaysIdle
    /\ DbIdle
    /\ LoaderIdle
    /\ FloatIdle

NextTravel == PredictGame

SpecTravel == InitTravel /\ [][NextTravel]_vars

\* one call of calculate_bet_size
InitKelly ==
    /\ PredictorIdle /\ SignalIdle /\ CardIdle
    /\ bankroll = DEFAULT_BANKROLL
    /\ kArgs \in KellyArgs
    /\ sizing = NotCalled
    /\ PlaysIdle
    /\ DbIdle
    /\ LoaderIdle
    /\ FloatIdle

NextKelly == CalculateBetSize

SpecKelly == InitKelly /\ [][NextKelly]_vars

\* one call of generate_recommendation
InitSignal ==
    /\ PredictorIdle /\ KellyIdle /\ CardIdle
    /\ bankroll \in Bankrolls
    /\ recArgs \in RecArgs
    /\ recommendation = NotCalled
    /\ PlaysIdle
    /\ DbIdle
    /\ LoaderIdle
    /\ FloatIdle

NextSignal == GenerateRecommendation

SpecSignal == InitSignal /\ [][NextSignal]_vars

\* one call of generate_weekly_card
InitCard ==
    /\ PredictorIdle /\ KellyIdle /\ SignalIdle
    /\ bankroll = DEFAULT_BANKROLL
    /\ cardArgs \in CardArgs
    /\ card = NotCalled
    /\ PlaysIdle
    /\ DbIdle
    /\ LoaderIdle
    /\ FloatIdle

NextCard == GenerateWeeklyCard

SpecCard == InitCard /\ [][NextCard]_vars

\* the profile of one team from one table
InitProfile ==
    /\ PredictorIdle /\ KellyIdle /\ SignalIdle /\ CardIdle
    /\ bankroll = DEFAULT_BANKROLL
    /\ plArgs \in ProfileArgs
    /\ profile = NotCalled
    /\ recent_plays = NotCalled
    /\ situational = NotCalled
    /\ DbIdle
    /\ LoaderIdle
    /\ FloatIdle

NextProfile == BuildProfile

SpecProfile == InitProfile /\ [][NextProfile]_vars

\* one call of get_recent_games
InitRecent ==
    /\ PredictorIdle /\ KellyIdle /\ SignalIdle /\ CardIdle
    /\ bankroll = DEFAULT_BANKROLL
    /\ plArgs \in RecentArgs
    /\ profile = NotCalled
    /\ recent_plays = NotCalled
    /\ situational = NotCalled
    /\ DbIdle
    /\ LoaderIdle
    /\ FloatIdle

NextRecent == GetRecentGames

SpecRecent == InitRecent /\ [][NextRecent]_vars

\* one call of calculate_situational_stats
InitSituational ==
    /\ PredictorIdle /\ KellyIdle /\ SignalIdle /\ CardIdle
    /\ bankroll = DEFAULT_BANKROLL
    /\ plArgs \in SituationalArgs
    /\ profile = NotCalled
    /\ recent_plays = NotCalled
    /\ situational = NotCalled
    /\ DbIdle
    /\ LoaderIdle
    /\ FloatIdle

NextSituational == CalculateSituationalStats

SpecSituational == InitSituational /\ [][NextSituational]_vars

\* a database after init_database, then any calls of its three writers
InitDB ==
    /\ pgArgs = << >>
    /\ use_database = TRUE
    /\ now = 0
    /\ db_predictions = 0
    /\ returned = << >>
    /\ KellyIdle /\ SignalIdle /\ CardIdle /\ PlaysIdle /\ DbIdle
    /\ bankroll = DEFAULT_BANKROLL
    /\ LoaderIdle
    /\ FloatIdle

NextDB == SavePrediction \/ SaveResult \/ SaveBet

SpecDB == InitDB /\ [][NextDB]_vars

\* a new loader, whatever cache file an earlier run left, then any calls
InitLoader ==
    /\ PredictorIdle /\ KellyIdle /\ SignalIdle /\ CardIdle /\ PlaysIdle /\ DbIdle
    /\ bankroll = DEFAULT_BANKROLL
    /\ pbp_data = {}
    /\ cache_file \in FoundCacheFiles
    /\ upstream = 1
    /\ loader_calls = 0
    /\ loaded = [ op |-> "none" ]
    /\ FloatIdle

NextLoader == LoadPlayByPlay \/ ClearCache \/ Publish \/ Wait

SpecLoader == InitLoader /\ [][NextLoader]_vars

\* one projection from each of the totals, baselines and weather reports
InitFloat ==
    /\ PredictorIdle /\ KellyIdle /\ SignalIdle /\ CardIdle /\ PlaysIdle /\ DbIdle
    /\ LoaderIdle
    /\ bankroll = DEFAULT_BANKROLL
    /\ fpArgs \in FloatArgs
    /\ projection = NotCalled

NextFloat == PredictGameFloat

SpecFloat == InitFloat /\ [][NextFloat]_vars

----------------------------------------------------------------------------
(* Properties                                                              *)

BaselineOf(r) == r.home_base_epa - r.away_base_epa

\* C1: every prediction predict_game returns has an epa_differential within
\* GLOBAL_NON_EPA_CAP of the baseline differential (home blended EPA minus
\* away blended EPA), whatever the teams, rest days, injuries and weather.
C1_GlobalCapBoundsDifferential ==
    EPA_DOMINANT_MODE =>
        \A i \in DOMAIN returned :
            Abs(returned[i].epa_differential - BaselineOf(returned[i]))
                <= GLOBAL_NON_EPA_CAP

\* a prediction whose adjustments pulled the differential more than the cap
\* below the baseline
C1_Witness ==
    \E i \in DOMAIN returned :
        /\ returned[i].home_epa - returned[i].away_epa
               < BaselineOf(returned[i]) - GLOBAL_NON_EPA_CAP
        /\ returned[i].epa_differential = BaselineOf(returned[i]) - GLOBAL_NON_EPA_CAP

\* C2: the Kelly fraction of every recommendation lies in [0, MAX_BET_SIZE_PCT]
\* and suggested_units = fraction * bankroll / 100, which is therefore never
\* negative and never above 0.05 * bankroll / 100.
C2_KellyFractionCapped ==
    recommendation.status = "return" =>
        LET f == recommendation.value.kelly_fraction
            u == recommendation.value.suggested_units
        IN  /\ RLe(RZero, f)
            /\ RLe(f, Rat(5, 100))
            /\ u = RDiv(RMul(f, RInt(bankroll)), RInt(100))
            /\ RLe(RZero, u)
            /\ RLe(u, Rat(5 * bankroll, 100 * 100))

\* a recommendation for a certain winner, where the raw fractional Kelly is
\* far above the cap
C2_Witness ==
    /\ recommendation.status = "return"
    /\ recArgs.model_prediction["win_probability"] = Rat(1, 1)
    /\ recommendation.value.kelly_fraction = Rat(5, 100)
    /\ recommendation.value.suggested_units = Rat(5 * bankroll, 10000)

\* C3: the quarter-Kelly fraction calculate_bet_size returns is in
\* [0, MAX_BET_SIZE_PCT] and its dollar amount is at most
\* MAX_BET_SIZE_PCT * bankroll.
C3_BetSizeCapped ==
    sizing.status = "return" =>
        /\ RLe(RZero, sizing.value.fractional_kelly_pct)
        /\ RLe(sizing.value.fractional_kelly_pct, MAX_BET_SIZE_PCT)
        /\ RLe(sizing.value.fractional_kelly_amount,
               RMul(MAX_BET_SIZE_PCT, RInt(kArgs.bankroll)))

\* the decision list of C4; tenths * mult is in hundredths of a point
C4_DecisionList(edge, confidence, crossing, is_playoff) ==
    LET mult == IF is_playoff THEN 12 ELSE 10
        AtOrAbove(tenths) == edge >= tenths * mult * 10000
    IN  IF \/ (AtOrAbove(40) /\ confidence = "HIGH")
           \/ (AtOrAbove(30) /\ confidence \in {"HIGH", "MEDIUM"})
        THEN "STRONG_BET"
        ELSE IF AtOrAbove(25) THEN "MEDIUM_BET"
        ELSE IF (AtOrAbove(15) /\ ~crossing) \/ edge >= 1000000 THEN "LEAN"
        ELSE "NO_PLAY"

HasKeyNumberWarning(rec) ==
    \E i \in DOMAIN rec.warnings : rec.warnings[i] = KeyNumberWarning

\* C4: the signal of every recommendation is the first match of: STRONG_BET
\* if (edge >= 4.0 mult and HIGH) or (edge >= 3.0 mult and HIGH or MEDIUM);
\* MEDIUM_BET if edge >= 2.5 mult; LEAN if (edge >= 1.5 mult and the line
\* crosses no key number) or edge >= 1.0; else NO_PLAY, with mult = 1.2 in
\* the playoffs and 1.0 otherwise.  Market 3.0, model 7.0, HIGH, not playoff
\* is edge 4.0 and STRONG_BET.
C4_SignalIsDecisionList ==
    recommendation.status = "return" =>
        LET rec == recommendation.value
        IN  /\ rec.signal = C4_DecisionList(rec.edge_points, rec.confidence,
                                            HasKeyNumberWarning(rec),
                                            recArgs.is_playoff)
            /\ (/\ rec.market_spread = 3000000
                /\ rec.model_spread = 7000000
                /\ rec.confidence = "HIGH"
                /\ ~recArgs.is_playoff)
               => (rec.edge_points = 4000000 /\ rec.signal = "STRONG_BET")

\* the scenario of C4
C4_Witness ==
    /\ recommendation.status = "return"
    /\ recommendation.value.market_spread = 3000000
    /\ recommendation.value.model_spread = 7000000
    /\ recommendation.value.confidence = "HIGH"
    /\ ~recArgs.is_playoff
    /\ recommendation.value.signal = "STRONG_BET"

\* C5: every named entry of the adjustments record is within its own cap:
\* |rest_differential| <= CAP_REST_EPA, |injuries| <= CAP_INJURY_PER_TEAM_EPA,
\* |weather| <= CAP_WEATHER_EPA, fan_noise <= CAP_FAN_NOISE_EPA and
\* MAX_PENALTY_EPA <= travel_penalty <= 0.
C5_EntriesWithinOwnCaps ==
    \A i \in DOMAIN returned :
        LET adj == returned[i].adjustments
        IN  /\ Abs(Get(adj, "rest_differential", 0)) <= CAP_REST_EPA
            /\ Abs(Get(adj, "injuries", 0)) <= CAP_INJURY_PER_TEAM_EPA
            /\ Abs(Get(adj, "weather", 0)) <= CAP_WEATHER_EPA
            /\ Get(adj, "fan_noise", 0) <= CAP_FAN_NOISE_EPA
            /\ MAX_PENALTY_EPA <= Get(adj, "travel_penalty", 0)
            /\ Get(adj, "travel_penalty", 0) <= 0

\* C6: with raw = home_epa - away_epa and base the baseline differential,
\* epa_differential is base + cap when raw - base > cap, base - cap when
\* raw - base < -cap and raw otherwise, and the entry
\* global_non_epa_cap_applied is raw - epa_differential in every case.
C6_ClampIsSignPreserving ==
    EPA_DOMINANT_MODE =>
        \A i \in DOMAIN returned :
            LET r    == returned[i]
                raw  == r.home_epa - r.away_epa
                base == BaselineOf(r)
            IN  /\ (raw - base > 60000) => r.epa_differential = base + 60000
                /\ (raw - base < -60000) => r.epa_differential = base - 60000
                /\ (Abs(raw - base) <= 60000) => r.epa_differential = raw
                /\ "global_non_epa_cap_applied" \in DOMAIN r.adjustments
                /\ r.adjustments["global_non_epa_cap_applied"]
                       = raw - r.epa_differential

\* a prediction clamped from below, the recorded amount being negative
C6_Witness ==
    \E i \in DOMAIN returned :
        /\ returned[i].home_epa - returned[i].away_epa - BaselineOf(returned[i]) < -60000
        /\ returned[i].adjustments["global_non_epa_cap_applied"] < 0

WellFormed(pred) ==
    "predicted_spread" \in DOMAIN pred /\ "win_probability" \in DOMAIN pred

\* the predictions of the batch that have a market line
Matched(i) == game_key_of(cardArgs.predictions[i]) \in DOMAIN cardArgs.market_lines

\* C7: a prediction of the batch that lacks predicted_spread or
\* win_probability aborts only its own recommendation: generate_weekly_card
\* still returns, with one recommendation for each well-formed prediction
\* whose key is in market_lines.
C7_MissingFieldAbortsOnlyItself ==
    card.status # "not called" =>
        /\ card.status = "return"
        /\ Len(card.value) =
               Cardinality({ i \in DOMAIN cardArgs.predictions :
                                 Matched(i) /\ WellFormed(cardArgs.predictions[i]) })

\* the recommendations of the card made from (game, model spread)
CardCount(game, spread) ==
    Cardinality({ i \in DOMAIN card.value :
                      card.value[i].game = game /\ card.value[i].model_spread = spread })

\* the matched predictions of the batch with that game and model spread
BatchCount(game, spread) ==
    Cardinality({ i \in DOMAIN cardArgs.predictions :
                      /\ Matched(i)
                      /\ game_key_of(cardArgs.predictions[i]) = game
                      /\ cardArgs.predictions[i]["predicted_spread"] = spread })

AllWellFormed == \A i \in DOMAIN cardArgs.predictions : WellFormed(cardArgs.predictions[i])

\* C8: for well-formed predictions, generate_weekly_card returns exactly one
\* recommendation per prediction whose key is in market_lines and none for
\* the others, ordered by tier STRONG_BET, MEDIUM_BET, LEAN, NO_PLAY, AVOID
\* and within a tier by edge_points, largest first.
C8_CardCompleteAndSorted ==
    (card.status # "not called" /\ AllWellFormed) =>
        /\ card.status = "return"
        /\ Len(card.value) =
               Cardinality({ i \in DOMAIN cardArgs.predictions : Matched(i) })
        /\ \A g \in { "BUF @ DEN", "SF @ SEA" }, sp \in CardSpreads :
               CardCount(g, sp) = BatchCount(g, sp)
        /\ \A i, j \in DOMAIN card.value :
               i < j =>
                   \/ signal_order[card.value[i].signal] < signal_order[card.value[j].signal]
                   \/ /\ card.value[i].signal = card.value[j].signal
                      /\ card.value[i].edge_points >= card.value[j].edge_points

\* a card that left a prediction out, holds two tiers, and holds two
\* recommendations of one tier with different edges, given in the batch in
\* the opposite order
C8_Witness ==
    /\ card.status = "return"
    /\ AllWellFormed
    /\ Len(card.value) < Len(cardArgs.predictions)
    /\ \E i, j \in DOMAIN card.value :
           /\ i < j
           /\ card.value[i].signal = card.value[j].signal
           /\ card.value[i].edge_points > card.value[j].edge_points
    /\ \E i, j \in DOMAIN card.value : card.value[i].signal # card.value[j].signal
    /\ \E i, j \in DOMAIN cardArgs.predictions :
           /\ i < j /\ Matched(i) /\ Matched(j)
           /\ cardArgs.predictions[i]["predicted_spread"] = 6000000
           /\ cardArgs.predictions[j]["predicted_spread"] = 8000000

\* C9: two calls of predict_game with the same arguments over the same play
\* data return the same record, field for field, whenever they are made.
C9_PredictGameRepeatable ==
    \A i, j \in DOMAIN returned : returned[i] = returned[j]

\* C10 as stated: the key-number check is true exactly when
\* [|market_spread|, |market_spread| + edge_points] contains 3 or 7.
C10_CrossesIffKeyInUpperInterval ==
    recommendation.status = "return" =>
        LET rec == recommendation.value
            m   == Abs(rec.market_spread)
        IN  HasKeyNumberWarning(rec) <=>
                \E key \in {3000000, 7000000} : m <= key /\ key <= m + rec.edge_points

\* C10 amended: the key-number check is true exactly when
\* [|market_spread| - edge_points, |market_spread| + edge_points] contains
\* 3 or 7.
C10_CrossesIffKeyWithinEdge ==
    recommendation.status = "return" =>
        LET rec == recommendation.value
            m   == Abs(rec.market_spread)
        IN  HasKeyNumberWarning(rec) <=>
                \E key \in {3000000, 7000000} :
                    m - rec.edge_points <= key /\ key <= m + rec.edge_points

\* a line above 3 whose edge reaches down to 3 but not up to 7
C10_Witness ==
    /\ recommendation.status = "return"
    /\ recommendation.value.market_spread = 3500000
    /\ recommendation.value.edge_points = 1000000
    /\ HasKeyNumberWarning(recommendation.value)

\* the Kelly fraction (b p - q) / b of probability p at American odds o
KellyOf(p, o) ==
    LET b == IF o < 0 THEN Rat(100, -o) ELSE Rat(o, 100)
    IN  RDiv(RSub(RMul(b, p), RSub(RInt(1), p)), b)

\* C11: market spread 3.2 with edge 0.4 is flagged as crossing a key number;
\* a recommendation carrying the reduced-Kelly warning has the fraction
\* min(MAX_BET_SIZE_PCT, max(0, kelly * KELLY_FRACTION * REDUCE_KELLY_NEAR_KEY)),
\* one without it has min(MAX_BET_SIZE_PCT, max(0, kelly * KELLY_FRACTION)),
\* and no recommendation has a larger fraction than a line that crosses no
\* key number gets for the same probability and odds.
C11_KeyNumberReducesKelly ==
    recommendation.status = "return" =>
        LET rec  == recommendation.value
            p    == recArgs.model_prediction["win_probability"]
            o    == recArgs.market_odds
            frac == RMul(KellyOf(p, o), Rat(25, 100))
            cap(x) == RMin(Rat(5, 100), RMax(RZero, x))
        IN  /\ (rec.market_spread = 3200000 /\ rec.edge_points = 400000)
                   => HasKeyNumberWarning(rec)
            /\ HasKeyNumberWarning(rec)
                   => rec.kelly_fraction = cap(RMul(frac, REDUCE_KELLY_NEAR_KEY))
            /\ ~HasKeyNumberWarning(rec) => rec.kelly_fraction = cap(frac)
            /\ RLe(rec.kelly_fraction, calculate_kelly(p, o, 0, 1000000))

\* the scenario of C11 with a fraction strictly between 0 and the cap, so
\* that the reduction shows
C11_Witness ==
    /\ recommendation.status = "return"
    /\ recommendation.value.market_spread = 3200000
    /\ recommendation.value.edge_points = 400000
    /\ HasKeyNumberWarning(recommendation.value)
    /\ recArgs.model_prediction["win_probability"] = Rat(11, 20)
    /\ recArgs.market_odds = -110
    /\ recommendation.value.kelly_fraction = Rat(33, 3200)

\* C12 as stated: the playoff multiplier 1.2 scales every edge threshold, so
\* the playoff signal of an edge 1.2 e is the regular-season signal of e,
\* whatever the confidence and the market spread.
C12_PlayoffScalesEveryThreshold ==
    (recommendation.status = "return" /\ ~recArgs.is_playoff) =>
        LET rec == recommendation.value
        IN  determine_signal((rec.edge_points * 6) \div 5, rec.confidence,
                             rec.market_spread, TRUE) = rec.signal

\* C12 amended: the multiplier scales the thresholds 4.0, 3.0, 2.5 and 1.5
\* but not the LEAN floor of 1.0: the playoff signal of an edge 1.2 e is the
\* regular-season signal of e, except for 1.0 <= 1.2 e < 1.2, where the
\* playoff signal is LEAN and the regular-season signal is NO_PLAY.
C12_PlayoffScalesAllButLeanFloor ==
    (recommendation.status = "return" /\ ~recArgs.is_playoff) =>
        LET rec     == recommendation.value
            scaled  == (rec.edge_points * 6) \div 5
            playoff == determine_signal(scaled, rec.confidence,
                                        rec.market_spread, TRUE)
        IN  IF 1000000 <= scaled /\ scaled < 1200000
            THEN playoff = "LEAN" /\ rec.signal = "NO_PLAY"
            ELSE playoff = rec.signal

\* a regular-season edge of 0.9, whose playoff counterpart 1.08 is above the
\* unscaled floor
C12_Witness ==
    /\ recommendation.status = "return"
    /\ ~recArgs.is_playoff
    /\ recommendation.value.edge_points = 900000
    /\ recommendation.value.signal = "NO_PLAY"
    /\ determine_signal(1080000, recommendation.value.confidence,
                        recommendation.value.market_spread, TRUE) = "LEAN"

\* C13: a sizing request whose win probability lies outside [0, 1] or whose
\* American odds lie strictly between -100 and 100 raises a validation error
\* and produces no sizing result: calculate_bet_size returns a result only
\* for a valid probability and valid odds.
C13_InvalidSizingRaises ==
    sizing.status = "return" =>
        validate_probability(kArgs.win_prob) /\ validate_odds(kArgs.odds)

\* C14: generate_recommendation raises ValueError, naming both fields and
\* the values it got, exactly when predicted_spread or win_probability is
\* absent from the prediction; a spread of 0 or a probability of 0 is present
\* and yields a recommendation.
C14_RaisesIffFieldAbsent ==
    recommendation.status # "not called" =>
        LET mp     == recArgs.model_prediction
            absent == {"predicted_spread", "win_probability"} \ DOMAIN mp
        IN  /\ (recommendation.status = "raise") <=> (absent # {})
            /\ (recommendation.status = "return") <=> (absent = {})
            /\ recommendation.status = "raise" =>
                   /\ recommendation.error.type = "ValueError"
                   /\ recommendation.error.fields
                          = << "predicted_spread", "win_probability" >>
                   /\ \A k \in {"predicted_spread", "win_probability"} :
                          IF k \in DOMAIN mp
                          THEN /\ k \in DOMAIN recommendation.error.got
                               /\ recommendation.error.got[k] = mp[k]
                          ELSE k \notin DOMAIN recommendation.error.got

\* a pick'em spread of 0.0 with probability 0.0 that got a recommendation
C14_Witness ==
    /\ recommendation.status = "return"
    /\ recArgs.model_prediction["predicted_spread"] = 0
    /\ recArgs.model_prediction["win_probability"] = RZero
    /\ recommendation.value.model_spread = 0

\* C15: an adjustment whose source data is absent or inactive has no key in
\* the adjustments record: no injuries key without injuries, no weather key
\* when weather is absent or no condition triggers, no rest_differential key
\* when rest data is absent or equal, no travel_penalty key when the penalty
\* is zero; global_non_epa_cap_applied is in every record.
C15_AbsentSourceOmitsKey ==
    \A i \in DOMAIN returned :
        LET adj  == returned[i].adjustments
            a    == pgArgs
            rest == IF "away" \in DOMAIN a.rest_days
                    THEN {a.rest_days["away"]} ELSE {}
        IN  /\ a.injuries = << >> => "injuries" \notin DOMAIN adj
            /\ (a.weather = << >> \/ returned[i].weather_impact = 0)
                   => "weather" \notin DOMAIN adj
            /\ (a.rest_days = << >>
                    \/ Get(a.rest_days, "home", 0) = Get(a.rest_days, "away", 0))
                   => "rest_differential" \notin DOMAIN adj
            /\ compute_travel_penalty(a.home_team, a.away_team, rest) = 0
                   => "travel_penalty" \notin DOMAIN adj
            /\ "global_non_epa_cap_applied" \in DOMAIN adj

\* C16: for valid American odds (<= -100 or >= 100), 1 / american_to_decimal
\* is calculate_implied_prob: |odds| / (|odds| + 100) for negative odds and
\* 100 / (odds + 100) for positive odds.
C16_DecimalOddsRoundTrip ==
    (sizing.status = "return" /\ validate_odds(kArgs.odds)) =>
        LET odds   == kArgs.odds
            closed == IF odds < 0 THEN Rat(-odds, -odds + 100)
                      ELSE Rat(100, odds + 100)
        IN  /\ RDiv(RInt(1), american_to_decimal(odds)) = calculate_implied_prob(odds)
            /\ calculate_implied_prob(odds) = closed
            /\ sizing.value.implied_prob = closed

\* a sizing at -110, whose implied probability is 110/210
C16_Witness ==
    /\ sizing.status = "return"
    /\ kArgs.odds = -110
    /\ sizing.value.implied_prob = Rat(11, 21)
    /\ RDiv(RInt(1), american_to_decimal(-110)) = Rat(11, 21)

\* x is y to within half a unit of y's last stated digit, the unit being
\* 1 / scale
Approx(x, y, scale) ==
    LET d == RSub(x, y)
    IN  RLe(Rat(-1, 2 * scale), d) /\ RLe(d, Rat(1, 2 * scale))

\* the sizing request of C17
C17_Scenario ==
    /\ sizing.status = "return"
    /\ kArgs.win_prob = Rat(55, 100)
    /\ kArgs.odds = -110
    /\ kArgs.bankroll = 10000

\* C17 as stated: at odds -110, probability 0.55, bankroll 10000 and quarter
\* Kelly, the full Kelly fraction is about 0.0554, the quarter-Kelly fraction
\* about 0.01386 and the stake about 138.6 dollars.
C17_QuarterKellyAbout1386 ==
    C17_Scenario =>
        /\ Approx(sizing.value.full_kelly_pct, Rat(554, 10000), 10000)
        /\ Approx(sizing.value.fractional_kelly_pct, Rat(1386, 100000), 100000)
        /\ Approx(sizing.value.fractional_kelly_amount, Rat(1386, 10), 10)

\* C17 amended: the full Kelly fraction is 0.055, the quarter-Kelly fraction
\* 0.01375 and the stake 137.50 dollars, which is below MAX_BET_SIZE_PCT of
\* the bankroll.
C17_QuarterKellyIs1375 ==
    C17_Scenario =>
        /\ sizing.value.full_kelly_pct = Rat(55, 1000)
        /\ sizing.value.kelly_fraction_used = Rat(1, 4)
        /\ sizing.value.fractional_kelly_pct = Rat(1375, 100000)
        /\ sizing.value.fractional_kelly_amount = Rat(1375, 10)
        /\ RLe(sizing.value.fractional_kelly_amount,
               RMul(MAX_BET_SIZE_PCT, RInt(kArgs.bankroll)))

\* the request of C17 sized at 137.50 dollars
C17_Witness ==
    /\ C17_Scenario
    /\ sizing.value.fractional_kelly_amount = Rat(275, 2)

\* C18: the predicted spread is the final EPA differential divided by 0.04;
\* the winner is the home team when the spread is above 0 and the away team
\* otherwise, 0 included; the confidence is HIGH above 7 points in absolute
\* value, MEDIUM above 3 and up to 7, LOW up to 3; a differential of 0.05
\* gives 1.25 points, the home team and LOW.
C18_SpreadWinnerConfidence ==
    \A i \in 1..Len(returned) :
        LET r == returned[i]
            spread == r.predicted_spread
        IN  /\ spread * 40 = r.epa_differential * 1000
            /\ r.predicted_winner = (IF spread > 0 THEN r.home_team ELSE r.away_team)
            /\ spread = 0 => r.predicted_winner = r.away_team
            /\ (Abs(spread) > 7000000) <=> (r.confidence_level = "HIGH")
            /\ (3000000 < Abs(spread) /\ Abs(spread) <= 7000000)
                   <=> (r.confidence_level = "MEDIUM")
            /\ (Abs(spread) <= 3000000) <=> (r.confidence_level = "LOW")
            /\ r.epa_differential = 50000 =>
                   /\ spread = 1250000
                   /\ r.predicted_winner = r.home_team
                   /\ r.confidence_level = "LOW"

\* a prediction with final differential 0.05: 1.25 points, home team, LOW
C18_Witness ==
    \E i \in 1..Len(returned) :
        /\ returned[i].epa_differential = 50000
        /\ returned[i].predicted_spread = 1250000
        /\ returned[i].predicted_winner = returned[i].home_team
        /\ returned[i].confidence_level = "LOW"

\* the call with the home team given the rest of the away team: no rest
\* differential, the same travel penalty
EqualRest(a) ==
    [ a EXCEPT !.rest_days = IF "away" \in DOMAIN a.rest_days
                             THEN [ home |-> a.rest_days["away"],
                                    away |-> a.rest_days["away"] ]
                             ELSE << >> ]

\* C19: the rest adjustment is (home rest - away rest) * 0.005 clamped to
\* +-CAP_REST_EPA and is added to the home side only; home 13 days and away 6
\* give exactly 0.035, and larger gaps stay at 0.035.
C19_RestAdjustmentHomeOnly ==
    \A i \in 1..Len(returned) :
        LET r == returned[i]
            home_rest == Get(pgArgs.rest_days, "home", 0)
            away_rest == Get(pgArgs.rest_days, "away", 0)
            raw == (home_rest - away_rest) * 5000
            clamped == Max(-CAP_REST_EPA, Min(CAP_REST_EPA, raw))
            level == predict_game(EqualRest(pgArgs), now, {})
        IN  /\ Get(r.adjustments, "rest_differential", 0) = clamped
            /\ r.home_epa = level.home_epa + clamped
            /\ r.away_epa = level.away_epa
            /\ (home_rest - away_rest >= 7) => clamped = 35000

\* home 13 days, away 6 days: 0.035 recorded and added to the home side
C19_Witness ==
    /\ returned # << >>
    /\ pgArgs.rest_days = [ home |-> 13, away |-> 6 ]
    /\ returned[1].adjustments["rest_differential"] = 35000
    /\ returned[1].home_epa
           = predict_game(EqualRest(pgArgs), now, {}).home_epa + 35000

\* the zone indices C20 states
C20_ZoneIndex(zone) ==
    CASE zone = "ET" -> 0 [] zone = "CT" -> 1 [] zone = "MT" -> 2 [] zone = "PT" -> 3

\* C20: timezone_diff is the absolute difference of the teams' zone indices
\* (SEA at BUF: 3) and symmetric; compute_travel_penalty is the table entry
\* of that difference, times 1.5 exactly when the away team's rest is given
\* and below 7 days; it lies between MAX_PENALTY_EPA and 0, so the travel
\* penalty predict_game applies is the value computed.
C20_TravelPenaltyWithinFloor ==
    \A i \in 1..Len(returned) :
        LET home == pgArgs.home_team
            away == pgArgs.away_team
            diff == timezone_diff(home, away)
            given == "away" \in DOMAIN pgArgs.rest_days
            short_week == given /\ pgArgs.rest_days["away"] < 7
            away_rest == IF given THEN {pgArgs.rest_days["away"]} ELSE {}
            penalty == compute_travel_penalty(home, away, away_rest)
        IN  /\ diff = Abs(C20_ZoneIndex(TEAM_TIMEZONES[home])
                           - C20_ZoneIndex(TEAM_TIMEZONES[away]))
            /\ diff = timezone_diff(away, home)
            /\ timezone_diff("BUF", "SEA") = 3
            /\ penalty * 2 = (IF short_week THEN 3 ELSE 2) * TZ_DIFF_PENALTY[diff]
            /\ MAX_PENALTY_EPA <= penalty /\ penalty <= 0
            /\ Get(returned[i].adjustments, "travel_penalty", 0) = penalty
            /\ returned[i].away_epa - returned[i].away_base_epa
                   - (IF returned[i].is_division_game
                      THEN -returned[i].adjustments["division_rivalry"] \div 2
                      ELSE 0)
                 = penalty

\* SEA at BUF on six days of rest: three zones, -0.018 * 1.5 = -0.027 applied
C20_Witness ==
    /\ returned # << >>
    /\ pgArgs.home_team = "BUF" /\ pgArgs.away_team = "SEA"
    /\ "away" \in DOMAIN pgArgs.rest_days /\ pgArgs.rest_days["away"] = 6
    /\ timezone_diff("BUF", "SEA") = 3
    /\ returned[1].adjustments["travel_penalty"] = -27000

\* C21: compute_fan_noise_boost is the base value plus the loud-stadium bonus
\* for a team in LOUD_STADIUMS plus the dome bonus for a team in DOME_TEAMS
\* (SEA: base + loud bonus, CAR: base only); predict_game applies
\* min(boost, CAP_FAN_NOISE_EPA), which lies between the base and the cap.
C21_FanNoiseSumCapped ==
    \A i \in 1..Len(returned) :
        LET home == pgArgs.home_team
            loud == IF home \in LOUD_STADIUMS THEN 3000 ELSE 0
            dome == IF home \in DOME_TEAMS THEN 2000 ELSE 0
            applied == returned[i].adjustments["fan_noise"]
        IN  /\ compute_fan_noise_boost(home) = 4000 + loud + dome
            /\ compute_fan_noise_boost("SEA")
                  = FAN_NOISE_BASE_EPA + FAN_NOISE_LOUD_STADIUM_BONUS_EPA
            /\ compute_fan_noise_boost("CAR") = FAN_NOISE_BASE_EPA
            /\ applied = Min(4000 + loud + dome, CAP_FAN_NOISE_EPA)
            /\ FAN_NOISE_BASE_EPA <= applied /\ applied <= CAP_FAN_NOISE_EPA

\* a loud dome at home: base and both bonuses, 0.009 applied
C21_Witness ==
    /\ returned # << >>
    /\ pgArgs.home_team = "NO"
    /\ compute_fan_noise_boost("NO") = 9000
    /\ returned[1].adjustments["fan_noise"] = 9000

\* the values of a record that are efficiencies or rates, not counts
AllZero(stats) == \A k \in DOMAIN stats : stats[k] = RZero

\* C22: a profile built from zero plays raises nothing and is all zero:
\* calculate_team_epa gives off_epa = def_epa = total_epa = 0 whenever the
\* offensive or the defensive plays are empty, calculate_recent_form gives
\* zeros for an empty recent set, and combine_full_and_recent of those two
\* gives combined_total_epa = 0.
C22_EmptyProfileIsZero ==
    profile # NotCalled =>
        LET plays == get_team_plays(plArgs.team, plArgs.pbp)
            recent == get_recent_games(plArgs.team, plArgs.num_games, plArgs.pbp)
            p == profile.value
        IN  /\ profile.status = "return"
            /\ (plays.offense = << >> \/ plays.defense = << >>) =>
                   /\ p.epa.off_epa = RZero
                   /\ p.epa.def_epa = RZero
                   /\ p.epa.total_epa = RZero
            /\ recent = << >> =>
                   /\ p.recent_epa.recent_off_epa = RZero
                   /\ p.recent_epa.recent_def_epa = RZero
                   /\ p.recent_epa.recent_games = 0
            /\ (plays.offense = << >> /\ plays.defense = << >>) =>
                   /\ p.combined.combined_total_epa = RZero
                   /\ AllZero(p.combined)
                   /\ AllZero(p.situational)

\* a table with plays of other teams only, profiled for the team: all zero
C22_Witness ==
    /\ profile # NotCalled
    /\ plArgs.pbp # << >>
    /\ get_team_plays(plArgs.team, plArgs.pbp) = [ offense |-> << >>, defense |-> << >> ]
    /\ profile.value.epa.total_epa = RZero
    /\ profile.value.combined.combined_total_epa = RZero

\* the team plays in row i of the table
Involved(team, pbp, i) == pbp[i].posteam = team \/ pbp[i].defteam = team

\* the row in which the team's game g first appears
FirstRow(team, pbp, g) ==
    CHOOSE i \in DOMAIN pbp :
        /\ Involved(team, pbp, i) /\ pbp[i].game_id = g
        /\ \A j \in 1..(i - 1) : ~(Involved(team, pbp, j) /\ pbp[j].game_id = g)

\* the game ids of the team
GamesOf(team, pbp) ==
    { pbp[i].game_id : i \in { j \in DOMAIN pbp : Involved(team, pbp, j) } }

\* g is among the last n of the team's games in order of first appearance
AmongLast(team, pbp, g, n) ==
    Cardinality({ h \in GamesOf(team, pbp) :
                    FirstRow(team, pbp, h) > FirstRow(team, pbp, g) }) < n

\* C23: for N >= 1, get_recent_games(team, N) returns exactly the plays in
\* which the team is on offense or defense and whose game id is among the
\* last min(N, G) of the team's G distinct game ids in order of first
\* appearance, in the order of the input.
C23_RecentGamesAreLastN ==
    (recent_plays # NotCalled /\ plArgs.num_games >= 1) =>
        LET team == plArgs.team
            pbp == plArgs.pbp
            n == Min(plArgs.num_games, Cardinality(GamesOf(team, pbp)))
            kept == { i \in DOMAIN pbp :
                        /\ Involved(team, pbp, i)
                        /\ AmongLast(team, pbp, pbp[i].game_id, n) }
        IN  /\ recent_plays.status = "return"
            /\ recent_plays.value
                 = SelectSeq(pbp, LAMBDA p :
                       /\ (p.posteam = team \/ p.defteam = team)
                       /\ p.game_id \in { pbp[i].game_id : i \in kept })
            /\ Len(recent_plays.value) = Cardinality(kept)

\* the team's games interleaved, fewer games asked for than played: some of
\* the team's plays are returned and some are not
C23_Witness ==
    /\ recent_plays # NotCalled
    /\ Cardinality(GamesOf(plArgs.team, plArgs.pbp)) > plArgs.num_games
    /\ Len(plArgs.pbp) = 3
    /\ plArgs.pbp[1].game_id = plArgs.pbp[3].game_id
    /\ Len(recent_plays.value) = 1
    /\ recent_plays.value[1] = plArgs.pbp[2]

\* the third-down plays with 4 to 7 yards to go
ThirdAndMedium(plays) ==
    SelectSeq(plays, LAMBDA p : p.down = 3 /\ 4 <= p.ydstogo /\ p.ydstogo <= 7)

\* C24: the 3rd-down metrics of calculate_situational_stats are computed
\* over the 3rd-down plays with 4 to 7 yards to go, so a 3rd-down play with
\* fewer than 4 or more than 7 yards to go does not change them; a metric
\* whose subset of plays is empty is 0 and nothing is raised.
C24_ThirdDownRestrictedToMedium ==
    situational # NotCalled =>
        LET plays == get_team_plays(plArgs.team, plArgs.pbp)
            off_3rd == ThirdAndMedium(plays.offense)
            def_3rd == ThirdAndMedium(plays.defense)
            stats == situational.value
        IN  /\ situational.status = "return"
            /\ stats.off_3rd_epa = MeanEpaOrZero(off_3rd)
            /\ stats.def_3rd_epa = MeanEpaOrZero(def_3rd)
            /\ stats.off_3rd_conv_rate
                 = RateOrZero(off_3rd, LAMBDA p : p.first_down = 1)
            /\ stats.def_3rd_stop_rate
                 = RateOrZero(def_3rd, LAMBDA p : p.first_down = 0)

\* the rows of a table that refer to prediction id
RowsFor(table, id) == { i \in DOMAIN table : table[i].prediction_id = id }

\* C25: after any sequence of save_prediction, save_result and save_bet
\* calls every prediction id has at most one row in the results table.
C25_AtMostOneResultPerPrediction ==
    \A id \in PredictionIds : Cardinality(RowsFor(db_results, id)) <= 1

\* the injury adjustment of one team, capped
C26_Injury(team) ==
    IF team \in DOMAIN pgArgs.injuries
    THEN Max(-CAP_INJURY_PER_TEAM_EPA, Min(CAP_INJURY_PER_TEAM_EPA, pgArgs.injuries[team]))
    ELSE 0

\* C26: for division rivals the rivalry step leaves home + away unchanged
\* and multiplies the differential by 0.82, recording -0.18 times it; the
\* differential compressed contains home field, altitude, fan noise and
\* travel, and the rest, injury and weather adjustments made afterwards are
\* not compressed.
C26_RivalryCompressesEarlyDifferential ==
    \A i \in 1..Len(returned) :
        LET r == returned[i]
            adj == r.adjustments
            before_home == r.home_base_epa + adj["home_field"]
                           + Get(adj, "altitude", 0) + adj["fan_noise"]
            before_away == r.away_base_epa + Get(adj, "travel_penalty", 0)
            differential == before_home - before_away
            rest == Get(adj, "rest_differential", 0)
            weather == Get(adj, "weather", 0)
            later_home == rest + C26_Injury(r.home_team)
            later_away == C26_Injury(r.away_team)
        IN  r.is_division_game =>
              /\ r.home_epa + r.away_epa
                   = before_home + before_away + later_home + later_away + weather
              /\ 100 * ((r.home_epa - later_home) - (r.away_epa - later_away))
                   = 82 * differential
              /\ 100 * adj["division_rivalry"] = -18 * differential

\* division rivals with a rest differential and an injury: the rivalry
\* entry is -0.18 of the differential before them
C26_Witness ==
    /\ returned # << >>
    /\ returned[1].is_division_game
    /\ "rest_differential" \in DOMAIN returned[1].adjustments
    /\ returned[1].adjustments["injuries"] # 0
    /\ "weather" \in DOMAIN returned[1].adjustments
    /\ returned[1].adjustments["division_rivalry"] # 0
    /\ 100 * returned[1].adjustments["division_rivalry"]
         = -18 * (returned[1].home_base_epa + returned[1].adjustments["home_field"]
                  + returned[1].adjustments["fan_noise"]
                  - returned[1].away_base_epa
                  - Get(returned[1].adjustments, "travel_penalty", 0))

\* the call logged step e
Logged(e, log) == \E i \in DOMAIN log : log[i] = e

\* C27: a load without force_refresh returns the in-memory copy if there is
\* one, else the disk cache if it is younger than CACHE_HOURS and readable,
\* else freshly fetched data, which it stores in memory and on disk, else
\* the stale disk cache when the fetch fails; it raises RuntimeError only
\* when the fetch fails and no readable cache file exists.  A failed cache
\* write never fails the load, and after clear_cache the next load returns
\* no data without fetching.
C27_LoadOrderOfPreference ==
    [][ (loader_calls' = loader_calls + 1 /\ loaded'.op = "load"
         /\ ~loaded'.force_refresh) =>
        LET readable == cache_file # << >> /\ cache_file.data # {}
            young    == cache_file # << >> /\ cache_file.age < CACHE_HOURS
            out      == loaded'.outcome
            log      == loaded'.log
            cleared  == loaded.op = "clear" /\ loaded.outcome.status = "return"
        IN  /\ IF pbp_data # {}
               THEN /\ out = Return(pbp_data)
                    /\ ~Logged("fetch", log) /\ ~Logged("fetch failed", log)
               ELSE IF young /\ readable
               THEN /\ out = Return(cache_file.data)
                    /\ ~Logged("fetch", log) /\ ~Logged("fetch failed", log)
               ELSE IF Logged("fetch", log)
               THEN /\ out = Return({upstream})
                    /\ pbp_data' = {upstream}
                    /\ ~Logged("cache write failed", log) =>
                           cache_file' = [ data |-> {upstream}, age |-> 0 ]
               ELSE IF readable
               THEN /\ out = Return(cache_file.data)
                    /\ Logged("fetch failed", log)
                    /\ cache_file.age = CACHE_HOURS
               ELSE out = Raise("RuntimeError")
            /\ Logged("cache write failed", log) => out.status = "return"
            /\ out.status = "raise" => (Logged("fetch failed", log) /\ ~readable)
            /\ cleared => (out.status = "return" => Logged("fetch", log))
      ]_vars

\* a load that found nothing in memory, an old cache file and a failing
\* data source, and returned the old file's table
C27_Witness ==
    /\ loaded.op = "load"
    /\ ~loaded.force_refresh
    /\ loaded.log = << "fetch failed", "stale cache" >>
    /\ cache_file # << >> /\ cache_file.age = CACHE_HOURS
    /\ loaded.outcome = Return(cache_file.data)
    /\ pbp_data = cache_file.data

\* the tiers from weakest to strongest
SignalRank(signal) ==
    CASE signal = "NO_PLAY" -> 0 [] signal = "LEAN" -> 1
      [] signal = "MEDIUM_BET" -> 2 [] signal = "STRONG_BET" -> 3

\* edges from 0 to twice the largest model spread, in tenths of a point
C28_Edges == { k * 100000 : k \in 0..(2 * MaxSpreadTenths) }

\* C28: the signal depends only on the edge, the confidence and the playoff
\* flag: every market spread, crossing a key number or not, gives the same
\* signal; a larger edge never gives a weaker tier; LOW confidence never
\* gives STRONG_BET; AVOID is never returned.
C28_SignalIgnoresMarketSpread ==
    recommendation.status = "return" =>
        LET rec == recommendation.value
            playoff == recArgs.is_playoff
        IN  /\ \A market_spread \in MarketSpreads :
                   determine_signal(rec.edge_points, rec.confidence,
                                    market_spread, playoff) = rec.signal
            /\ \A edge \in C28_Edges :
                   edge >= rec.edge_points =>
                       SignalRank(determine_signal(edge, rec.confidence,
                                                   rec.market_spread, playoff))
                         >= SignalRank(rec.signal)
            /\ rec.confidence = "LOW" => rec.signal # "STRONG_BET"
            /\ rec.signal \in {"NO_PLAY", "LEAN", "MEDIUM_BET", "STRONG_BET"}

\* an edge of at least 1.5 points on a line that crosses a key number, and
\* on one that does not: LEAN both times
C28_Witness ==
    /\ recommendation.status = "return"
    /\ ~recArgs.is_playoff
    /\ recommendation.value.edge_points >= 1500000
    /\ recommendation.value.edge_points < 2500000
    /\ crosses_key_number(recommendation.value.market_spread,
                          recommendation.value.edge_points)
    /\ recommendation.value.signal = "LEAN"
    /\ \E market_spread \in MarketSpreads :
           /\ ~crosses_key_number(market_spread, recommendation.value.edge_points)
           /\ determine_signal(recommendation.value.edge_points,
                               recommendation.value.confidence,
                               market_spread, FALSE) = "LEAN"

\* the same call without a weather report
C29_NoWeather ==
    project_float(fpArgs.home_team, fpArgs.away_team, fpArgs.home_total_epa,
                  fpArgs.away_total_epa, fpArgs.base_epa_diff, << >>)

\* C29: weather never changes the outcome projection: a predict_game call
\* with a weather report returns the same epa_differential, predicted_spread,
\* predicted_winner and confidence_level (and, being a function of the
\* spread, the same win_probability) as the same call without the report.
C29_WeatherNeverChangesProjection ==
    projection.status = "returned" =>
        /\ projection.epa_differential = C29_NoWeather.epa_differential
        /\ projection.predicted_spread = C29_NoWeather.predicted_spread
        /\ projection.predicted_winner = C29_NoWeather.predicted_winner
        /\ projection.confidence_level = C29_NoWeather.confidence_level

\* the call recArgs describes with the model spread mirrored about the
\* market spread: the same edge_points on the other side of the line
C30_Mirrored ==
    generate_recommendation(
        bankroll, recArgs.game, recArgs.home_team, recArgs.away_team,
        [ recArgs.model_prediction EXCEPT
            !["predicted_spread"] = 2 * recArgs.market_spread - @ ],
        recArgs.market_spread, recArgs.market_odds, recArgs.is_playoff,
        recArgs.game_date)

\* rec and the recommendation of the mirrored call stake the same on
\* different teams
C30_SameStake(rec, mirrored) ==
    /\ mirrored.status = "return"
    /\ mirrored.value.edge_points = rec.edge_points
    /\ mirrored.value.kelly_fraction = rec.kelly_fraction
    /\ mirrored.value.suggested_units = rec.suggested_units
    /\ rec.edge_points > 0 =>
           mirrored.value.recommended_side[1] # rec.recommended_side[1]

\* C30: the stake does not depend on the recommended side: with the same
\* win_probability, odds, market_spread and edge_points, the call whose model
\* spread lies on the other side of the market spread recommends the other
\* team with the same kelly_fraction and suggested_units, and the fraction is
\* the one computed from the prediction's (home) win_probability whichever
\* side is recommended.
C30_StakeIgnoresSide ==
    recommendation.status = "return" =>
        /\ C30_SameStake(recommendation.value, C30_Mirrored)
        /\ recommendation.value.kelly_fraction
               = calculate_kelly(recArgs.model_prediction["win_probability"],
                                 recArgs.market_odds,
                                 recommendation.value.edge_points,
                                 recArgs.market_spread)

\* the away side recommended with a positive stake sized on the home team's
\* 55% while the mirrored call recommends the home side
C30_Witness ==
    /\ recommendation.status = "return"
    /\ recommendation.value.model_spread < recommendation.value.market_spread
    /\ recommendation.value.recommended_side[1] = recArgs.away_team
    /\ recArgs.model_prediction["win_probability"] = Rat(11, 20)
    /\ RLt(RZero, recommendation.value.kelly_fraction)
    /\ C30_SameStake(recommendation.value, C30_Mirrored)

====
